---- MODULE Spec2Model ----
(***************************************************************************)
(* Skillixer: the composition DSL (skill, pipe, parallel, fork, hydrate),  *)
(* the AST describer (describeAST) and the composition graph renderer.     *)
(*                                                                         *)
(* An authoring session evaluates a forge expression bottom-up: every      *)
(* constructor call takes its node arguments from the values built so far  *)
(* (the evaluation stack) and leaves its result there.  The last value is  *)
(* the composition that is then described.                                 *)
(***************************************************************************)
EXTENDS Integers, Sequences, FiniteSets, TLC

VARIABLES
  stack,   \* values built so far by the forge expression, oldest first
  call,    \* the last constructor call: its name and its arguments
  ret,     \* what that call did: a returned node, or a thrown Error
  pc,      \* "author" while the forge expression is evaluated, "failed" once
           \* a constructor has thrown, "compiled" once it has been described,
           \* "laid" once it has been laid out, "rendered" once drawn
  desc,    \* what describeAST did on the composition, once compiled
  again,   \* what a second describeAST did on the same composition
  heap,    \* the lists and sets the describeAST calls created, by reference
  results, \* per describeAST call that returned: the references of the
           \* skills list and the patterns set of its result
  idCounter, \* the graph module's counter behind generateId
  graph,   \* what the last layoutComposition did, once laid
  rows,    \* what renderGraphToStrings did, once rendered
  layouts, \* the number of layoutComposition calls so far
  previous, \* the layoutComposition call before the last, and what it did
  issued,  \* the ids generateId has issued since it was reset, in order
  tui,     \* the State of the terminal interface, once created
  watch,   \* the watcher of watch mode: its timer, its flag, its history
  app      \* the AppState of the application's store, once constructed

describerVars == <<desc, again, heap, results>>
graphVars == <<idCounter, graph, rows, layouts, previous, issued>>
tuiVars == <<tui>>
watchVars == <<watch>>
appVars == <<app>>
vars == <<stack, call, ret, pc, describerVars, graphVars, tuiVars, watchVars, appVars>>

(***************************************************************************)
(* Bounds of the model                                                     *)
(***************************************************************************)
\* composition nodes alive on the evaluation stack
MaxNodes == 4
\* layoutComposition calls in a session
MaxLayouts == 2
\* composition nodes of a forge file imported as a whole
MaxForgeNodes == 5
\* skills installed in the workspace of the terminal interface
MaxWorkspace == 3
\* skills added to the composition of the terminal interface
MaxComposition == 2
\* characters typed into the search box
MaxQuery == 1
\* readings of the clock
MaxClock == 1
\* ticks of the clock in watch mode
MaxTime == 5
\* file events in watch mode
MaxEvents == 3

(***************************************************************************)
(* JavaScript values                                                       *)
(***************************************************************************)
\* undefined where an object is expected (a node, a config)
Undefined == [tag |-> "undefined"]
\* A JavaScript string is held as the sequence of its characters; undefined
\* where a string is expected is the one sequence that is no string
UndefinedStr == <<"undefined">>

\* a call that returned v
Return(v) == [ok |-> TRUE, value |-> v]
\* a call that threw new Error(msg)
Throw(msg) == [ok |-> FALSE, error |-> msg]
\* a call that threw a TypeError (a property read of undefined)
TypeError == [ok |-> FALSE, error |-> "TypeError"]

\* !s for a string
FalsyStr(s) == s = <<>> \/ s = UndefinedStr

\* whitespace as String.prototype.trim and the regexp class \s see it
IsSpace(ch) == ch \in {" ", "\n", "\t"}

RECURSIVE TrimStart(_)
TrimStart(s) ==
  IF s # <<>> /\ IsSpace(Head(s)) THEN TrimStart(Tail(s)) ELSE s

RECURSIVE TrimEnd(_)
TrimEnd(s) ==
  IF s # <<>> /\ IsSpace(s[Len(s)]) THEN TrimEnd(SubSeq(s, 1, Len(s) - 1)) ELSE s

\* String.prototype.trim on a string held as its sequence of characters
Trim(s) == TrimEnd(TrimStart(s))

\* A config object is [ref, entries]: ref is its identity and entries its
\* set of <<key, value>> properties.  A value is a number, or an object held
\* by its identity.
Num(n) == [type |-> "number", v |-> n]
Obj(ref) == [type |-> "object", v |-> ref]

\* Object.keys(config)
ObjectKeys(config) == {e[1] : e \in config.entries}

(***************************************************************************)
(* core: the constructors                                                  *)
(***************************************************************************)
skill(definition) ==
  Return([tag |-> "SkillNode",
          skill |-> [tag |-> "Skill",
                     name |-> definition.name,
                     description |-> definition.description,
                     instructions |-> Trim(definition.instructions),
                     source |-> [type |-> "inline"]]])

\* pipe() handing its nodes back in the opposite order
pipeReversed(nodes) ==
  IF Len(nodes) = 0
    THEN Throw("pipe() requires at least one node")
    ELSE Return([tag |-> "PipeNode",
                 nodes |-> [i \in 1..Len(nodes) |-> nodes[Len(nodes) + 1 - i]]])

pipe(nodes) ==
  IF Len(nodes) = 0
    THEN Throw("pipe() requires at least one node")
    ELSE Return([tag |-> "PipeNode", nodes |-> nodes])

\* parallel() without its length check
parallelUnchecked(nodes) ==
  Return([tag |-> "ParallelNode", nodes |-> nodes])

parallel(nodes) ==
  IF Len(nodes) = 0
    THEN Throw("parallel() requires at least one node")
    ELSE Return([tag |-> "ParallelNode", nodes |-> nodes])

\* fork() looking at "then" before it looks at "when"
forkThenFirst(options) ==
  IF options.then = Undefined
    THEN Throw("fork() requires a \"then\" branch")
    ELSE IF FalsyStr(options.when)
      THEN Throw("fork() requires a \"when\" condition")
      ELSE Return([tag |-> "ForkNode",
                   condition |-> [when |-> options.when,
                                  then |-> options.then,
                                  else |-> options.else]])

fork(options) ==
  IF FalsyStr(options.when)
    THEN Throw("fork() requires a \"when\" condition")
    ELSE IF options.then = Undefined
      THEN Throw("fork() requires a \"then\" branch")
      ELSE Return([tag |-> "ForkNode",
                   condition |-> [when |-> options.when,
                                  then |-> options.then,
                                  else |-> options.else]])

\* hydrate() that only checks that a config was given
hydrateAnyConfig(node, config) ==
  IF node = Undefined
    THEN Throw("hydrate() requires a node")
    ELSE IF config = Undefined
      THEN Throw("hydrate() requires non-empty config")
      ELSE Return([tag |-> "HydrateNode", node |-> node, config |-> config])

hydrate(node, config) ==
  IF node = Undefined
    THEN Throw("hydrate() requires a node")
    ELSE IF config = Undefined \/ Cardinality(ObjectKeys(config)) = 0
      THEN Throw("hydrate() requires non-empty config")
      ELSE Return([tag |-> "HydrateNode", node |-> node, config |-> config])

(***************************************************************************)
(* compiler/describe: the AST describer                                    *)
(*                                                                         *)
(* The outline (the tree string) is held as its sequence of lines.  A line *)
(* is a record: indent is the number of leading spaces, marker the list    *)
(* marker ("1.", "-") put before it, kind its fixed text, and per kind the *)
(* name, the JSON of the configs, the instructions or the condition.       *)
(***************************************************************************)
TruncateLen == 200

\* str.replace(/\s+/g, ' ') on a sequence of characters
RECURSIVE CollapseSpaces(_)
CollapseSpaces(s) ==
  IF s = <<>> THEN <<>>
  ELSE IF IsSpace(Head(s))
    THEN <<" ">> \o CollapseSpaces(TrimStart(s))
    ELSE <<Head(s)>> \o CollapseSpaces(Tail(s))

truncate(str, maxLen) ==
  LET normalized == Trim(CollapseSpaces(str))
  IN IF Len(normalized) <= maxLen
       THEN normalized
       ELSE SubSeq(normalized, 1, maxLen - 3) \o <<".", ".", ".">>

\* Math.max(...list); of no numbers it is -Infinity, which absorbs 1 + x
NegInfinity == -2147483647
RECURSIVE MathMax(_)
MathMax(list) ==
  IF list = <<>> THEN NegInfinity
  ELSE LET m == MathMax(Tail(list))
       IN IF Head(list) >= m THEN Head(list) ELSE m
Plus(a, b) == IF NegInfinity \in {a, b} THEN NegInfinity ELSE a + b

\* hydrations.includes(h): SameValueZero, which on objects is identity
Includes(hydrations, h) ==
  \E i \in 1..Len(hydrations) : hydrations[i].ref = h.ref

\* skills.find((s) => s.name === name): the index of the first, or 0
Find(skills, name) ==
  IF \E i \in 1..Len(skills) : skills[i].name = name
    THEN CHOOSE i \in 1..Len(skills) :
           /\ skills[i].name = name
           /\ \A j \in 1..(i - 1) : skills[j].name # name
    ELSE 0

\* for (const h of currentHydrations) if (!includes(h)) push(h)
RECURSIVE AddNewHydrations(_, _)
AddNewHydrations(hydrations, currentHydrations) ==
  IF currentHydrations = <<>> THEN hydrations
  ELSE LET h == Head(currentHydrations)
       IN AddNewHydrations(
            IF Includes(hydrations, h) THEN hydrations ELSE Append(hydrations, h),
            Tail(currentHydrations))

\* the SkillNode case pushing a record for every leaf it meets
TrackSkillAlwaysPush(skills, s, currentHydrations) ==
  Append(skills, [name |-> s.name,
                  description |-> s.description,
                  instructions |-> s.instructions,
                  hydrations |-> currentHydrations])

\* the SkillNode case's update of the skills list
TrackSkill(skills, s, currentHydrations) ==
  LET existing == Find(skills, s.name)
  IN IF existing # 0
       THEN [skills EXCEPT ![existing].hydrations =
               AddNewHydrations(@, currentHydrations)]
       ELSE Append(skills, [name |-> s.name,
                            description |-> s.description,
                            instructions |-> s.instructions,
                            hydrations |-> currentHydrations])

\* the config has a property whose value is the config itself
Circular(config) ==
  \E e \in config.entries : e[2].type = "object" /\ e[2].v = config.ref

\* JSON.stringify(currentHydrations): the contents, without the identities;
\* it throws a TypeError on a circular structure
JSONStringify(hydrations) ==
  IF \E i \in 1..Len(hydrations) : Circular(hydrations[i])
    THEN TypeError
    ELSE Return([i \in 1..Len(hydrations) |-> hydrations[i].entries])

\* `${indent}  ${marker} ${stepDesc.trim()}`: trim drops the indent of the
\* first line; the other lines keep theirs
Item(indent, marker, text) ==
  <<[text[1] EXCEPT !.indent = indent + 2, !.marker = marker]>> \o Tail(text)

\* what describeNode left behind: its string, and the skills and patterns
\* it was handed, as it changed them
Described(text, skills, patterns) ==
  [ok |-> TRUE, text |-> text, skills |-> skills, patterns |-> patterns]

RECURSIVE describeNode(_, _, _, _, _)
RECURSIVE describeList(_, _, _, _, _, _, _)

\* case 'SkillNode'
describeSkill(node, depth, skills, patterns, currentHydrations) ==
  LET indent == 2 * depth
      tracked == TrackSkill(skills, node.skill, currentHydrations)
      hydrationNote == IF Len(currentHydrations) > 0
                         THEN JSONStringify(currentHydrations)
                         ELSE Return(<<>>)
  IN IF ~hydrationNote.ok THEN hydrationNote
     ELSE Described(
            << [indent |-> indent, marker |-> "", kind |-> "SKILL",
                name |-> node.skill.name,
                config |-> IF Len(currentHydrations) > 0
                             THEN <<hydrationNote.value>>
                             ELSE <<>>],
               [indent |-> indent + 2, marker |-> "", kind |-> "Instructions:",
                instructions |-> truncate(node.skill.instructions, TruncateLen)] >>,
            tracked,
            patterns)

\* the PipeNode case walking its children last to first
describePipeLastFirst(node, depth, skills, patterns, currentHydrations) ==
  LET steps == describeList([i \in 1..Len(node.nodes) |->
                               node.nodes[Len(node.nodes) + 1 - i]],
                            1, TRUE, depth, skills,
                            patterns \cup {"sequential"}, currentHydrations)
  IN IF ~steps.ok THEN steps
     ELSE Described(
            << [indent |-> 2 * depth, marker |-> "",
                kind |-> "SEQUENCE (execute in order):"] >> \o steps.text,
            steps.skills, steps.patterns)

\* case 'PipeNode'
describePipe(node, depth, skills, patterns, currentHydrations) ==
  LET steps == describeList(node.nodes, 1, TRUE, depth, skills,
                            patterns \cup {"sequential"}, currentHydrations)
  IN IF ~steps.ok THEN steps
     ELSE Described(
            << [indent |-> 2 * depth, marker |-> "",
                kind |-> "SEQUENCE (execute in order):"] >> \o steps.text,
            steps.skills, steps.patterns)

\* case 'ParallelNode'
describeParallel(node, depth, skills, patterns, currentHydrations) ==
  LET branches == describeList(node.nodes, 1, FALSE, depth, skills,
                               patterns \cup {"parallel"}, currentHydrations)
  IN IF ~branches.ok THEN branches
     ELSE Described(
            << [indent |-> 2 * depth, marker |-> "",
                kind |-> "PARALLEL (execute concurrently):"] >> \o branches.text,
            branches.skills, branches.patterns)

\* the ForkNode case leaving the else branch out
describeForkThenOnly(node, depth, skills, patterns, currentHydrations) ==
  LET indent == 2 * depth
      condition == node.condition
      thenDesc == describeNode(condition.then, depth + 1, skills,
                               patterns \cup {"conditional"}, currentHydrations)
  IN IF ~thenDesc.ok THEN thenDesc
     ELSE Described(
            << [indent |-> indent, marker |-> "",
                kind |-> "BRANCH on condition:", when |-> condition.when],
               [indent |-> indent + 2, marker |-> "", kind |-> "THEN:"] >>
              \o thenDesc.text,
            thenDesc.skills, thenDesc.patterns)

\* case 'ForkNode'
describeFork(node, depth, skills, patterns, currentHydrations) ==
  LET indent == 2 * depth
      condition == node.condition
      thenDesc == describeNode(condition.then, depth + 1, skills,
                               patterns \cup {"conditional"}, currentHydrations)
      result == << [indent |-> indent, marker |-> "",
                    kind |-> "BRANCH on condition:", when |-> condition.when],
                   [indent |-> indent + 2, marker |-> "", kind |-> "THEN:"] >>
                \o thenDesc.text
  IN IF ~thenDesc.ok THEN thenDesc
     ELSE IF condition.else # Undefined
       THEN LET elseDesc == describeNode(condition.else, depth + 1,
                              thenDesc.skills, thenDesc.patterns,
                              currentHydrations)
            IN IF ~elseDesc.ok THEN elseDesc
               ELSE Described(
                      result
                        \o << [indent |-> indent + 2, marker |-> "",
                               kind |-> "ELSE:"] >>
                        \o elseDesc.text,
                      elseDesc.skills, elseDesc.patterns)
       ELSE Described(result, thenDesc.skills, thenDesc.patterns)

\* the HydrateNode case putting its config before the active ones
describeHydrateInnermostFirst(node, depth, skills, patterns, currentHydrations) ==
  LET newHydrations == <<node.config>> \o currentHydrations
  IN describeNode(node.node, depth, skills, patterns \cup {"hydrated"},
                  newHydrations)

\* the HydrateNode case without its patterns.add
describeHydrateUnrecorded(node, depth, skills, patterns, currentHydrations) ==
  LET newHydrations == Append(currentHydrations, node.config)
  IN describeNode(node.node, depth, skills, patterns, newHydrations)

\* case 'HydrateNode'
describeHydrate(node, depth, skills, patterns, currentHydrations) ==
  LET newHydrations == Append(currentHydrations, node.config)
  IN describeNode(node.node, depth, skills, patterns \cup {"hydrated"},
                  newHydrations)

\* reading node._tag of undefined throws a TypeError; the default case
\* throws for a tag that is none of the five
describeNode(node, depth, skills, patterns, currentHydrations) ==
  CASE node = Undefined -> TypeError
    [] node.tag = "SkillNode" ->
         describeSkill(node, depth, skills, patterns, currentHydrations)
    [] node.tag = "PipeNode" ->
         describePipe(node, depth, skills, patterns, currentHydrations)
    [] node.tag = "ParallelNode" ->
         describeParallel(node, depth, skills, patterns, currentHydrations)
    [] node.tag = "ForkNode" ->
         describeFork(node, depth, skills, patterns, currentHydrations)
    [] node.tag = "HydrateNode" ->
         describeHydrate(node, depth, skills, patterns, currentHydrations)
    [] OTHER -> Throw("Unknown node type")

\* node.nodes.map((n, i) => ...).join('\n') from child i on: numbered steps
\* for a pipe, bulleted branches for a parallel
describeList(nodes, i, numbered, depth, skills, patterns, currentHydrations) ==
  IF i > Len(nodes) THEN Described(<<>>, skills, patterns)
  ELSE LET stepDesc == describeNode(nodes[i], depth + 1, skills, patterns,
                                    currentHydrations)
       IN IF ~stepDesc.ok THEN stepDesc
          ELSE LET rest == describeList(nodes, i + 1, numbered, depth,
                                        stepDesc.skills, stepDesc.patterns,
                                        currentHydrations)
                   marker == IF numbered THEN ToString(i) \o "." ELSE "-"
               IN IF ~rest.ok THEN rest
                  ELSE Described(Item(2 * depth, marker, stepDesc.text) \o rest.text,
                                 rest.skills, rest.patterns)

RECURSIVE calculateDepth(_)
\* calculateDepth counting a HydrateNode as a level
calculateDepthCountingHydrate(node) ==
  CASE node.tag = "SkillNode" -> 1
    [] node.tag \in {"PipeNode", "ParallelNode"} ->
         Plus(1, MathMax([i \in 1..Len(node.nodes) |-> calculateDepth(node.nodes[i])]))
    [] node.tag = "ForkNode" ->
         LET thenDepth == calculateDepth(node.condition.then)
             elseDepth == IF node.condition.else # Undefined
                            THEN calculateDepth(node.condition.else)
                            ELSE 0
         IN Plus(1, MathMax(<<thenDepth, elseDepth>>))
    [] node.tag = "HydrateNode" -> Plus(1, calculateDepth(node.node))

calculateDepth(node) ==
  CASE node.tag = "SkillNode" -> 1
    [] node.tag \in {"PipeNode", "ParallelNode"} ->
         Plus(1, MathMax([i \in 1..Len(node.nodes) |-> calculateDepth(node.nodes[i])]))
    [] node.tag = "ForkNode" ->
         LET thenDepth == calculateDepth(node.condition.then)
             elseDepth == IF node.condition.else # Undefined
                            THEN calculateDepth(node.condition.else)
                            ELSE 0
         IN Plus(1, MathMax(<<thenDepth, elseDepth>>))
    [] node.tag = "HydrateNode" -> calculateDepth(node.node)

\* An object is held in the heap under its reference, its position there.
\* skills and patterns kept at module level: every call refills the same
\* two objects
AllocateModuleLevel(h, kind, content) ==
  IF \E ref \in 1..Len(h) : h[ref].kind = kind
    THEN LET ref == CHOOSE ref \in 1..Len(h) : h[ref].kind = kind
         IN [heap |-> [h EXCEPT ![ref].content = content], ref |-> ref]
    ELSE [heap |-> Append(h, [kind |-> kind, content |-> content]),
          ref |-> Len(h) + 1]

\* const skills = [] and new Set(): a new object, filled by the walk
Allocate(h, kind, content) ==
  [heap |-> Append(h, [kind |-> kind, content |-> content]), ref |-> Len(h) + 1]

describeAST(node) ==
  LET d == describeNode(node, 0, <<>>, {}, <<>>)
  IN IF ~d.ok THEN d
     ELSE Return([tree |-> d.text,
                  skills |-> d.skills,
                  maxDepth |-> calculateDepth(node),
                  patterns |-> d.patterns])

(***************************************************************************)
(* tui/theme and tui/effects: colors and gradients                         *)
(*                                                                         *)
(* A color is its "#rrggbb" string, held as seven characters.              *)
(***************************************************************************)
parchment == <<"#", "e", "6", "e", "d", "f", "3">>
channelColor == <<"#", "5", "8", "a", "6", "f", "f">>
conjureColor == <<"#", "3", "f", "b", "9", "5", "0">>
divineColor == <<"#", "f", "f", "d", "7", "0", "0">>
imbueColor == <<"#", "a", "3", "7", "1", "f", "7">>
inscribeColor == <<"#", "f", "f", "6", "b", "3", "5">>

HexDigits ==
  <<"0", "1", "2", "3", "4", "5", "6", "7", "8", "9", "a", "b", "c", "d", "e", "f">>

\* the value of one hexadecimal digit
HexValue(ch) == (CHOOSE i \in 1..16 : HexDigits[i] = ch) - 1

\* parseInt(hex.substring(from, from + 2), 16), from counted from 0
parseInt16(hex, from) == 16 * HexValue(hex[from + 1]) + HexValue(hex[from + 2])

\* n.toString(16).padStart(2, '0') for 0 <= n; three digits from 256 on
toString16(n) ==
  IF n < 256
    THEN <<HexDigits[(n \div 16) + 1], HexDigits[(n % 16) + 1]>>
    ELSE <<HexDigits[(n \div 256) + 1], HexDigits[((n \div 16) % 16) + 1],
           HexDigits[(n % 16) + 1]>>

\* Math.round(c1 + (c2 - c1) * (j / segmentSteps)): the nearest integer,
\* a half rounding up
RoundMix(c1, c2, j, segmentSteps) ==
  (2 * (c1 * segmentSteps + (c2 - c1) * j) + segmentSteps) \div (2 * segmentSteps)

\* interpolateColor with factor = j / segmentSteps
interpolateColor(color1, color2, j, segmentSteps) ==
  LET hex1 == Tail(color1)
      hex2 == Tail(color2)
      r == RoundMix(parseInt16(hex1, 0), parseInt16(hex2, 0), j, segmentSteps)
      g == RoundMix(parseInt16(hex1, 2), parseInt16(hex2, 2), j, segmentSteps)
      b == RoundMix(parseInt16(hex1, 4), parseInt16(hex2, 4), j, segmentSteps)
  IN <<"#">> \o toString16(r) \o toString16(g) \o toString16(b)

\* a createGradient that leaves the last color out
createGradientWithoutLast(colorA, colorB, steps) ==
  LET segmentSteps == steps
  IN [j \in 1..segmentSteps |-> interpolateColor(colorA, colorB, j - 1, segmentSteps)]

\* createGradient([colorA, colorB], steps): steps interpolated colors, then
\* colorB
createGradient(colorA, colorB, steps) ==
  LET segmentSteps == steps
  IN [j \in 1..segmentSteps |-> interpolateColor(colorA, colorB, j - 1, segmentSteps)]
     \o <<colorB>>

(***************************************************************************)
(* tui/components/graph: the layout of a composition                       *)
(*                                                                         *)
(* A character of the drawing is a one-character string; a glyph outside   *)
(* ASCII is written as its code point, "U+2502" for the vertical line.     *)
(***************************************************************************)
NODE_WIDTH == 24
NODE_HEIGHT == 5
H_SPACING == 4
V_SPACING == 2

\* A const declaration is written CHOOSE out \in {F(x) : x \in {v}} : TRUE,
\* the value of F(v) with v evaluated once.

\* null for selectedId and parentId
Null == "null"

\* the decimal digits of n >= 0
RECURSIVE Digits(_)
Digits(n) ==
  IF n < 10 THEN <<ToString(n)>> ELSE Digits(n \div 10) \o <<ToString(n % 10)>>

\* `node-${idCounter}`
NodeId(counter) == "node-" \o ToString(counter)

\* ch.repeat(count)
Repeat(ch, count) == [i \in 1..count |-> ch]

\* str.slice(0, end)
Slice(str, end) == SubSeq(str, 1, IF end < Len(str) THEN end ELSE Len(str))

\* str.padEnd(targetLength)
PadEnd(str, targetLength) ==
  IF Len(str) >= targetLength THEN str
  ELSE str \o Repeat(" ", targetLength - Len(str))

getNodeType(node) ==
  CASE node.tag = "SkillNode" -> "skill"
    [] node.tag = "PipeNode" -> "pipe"
    [] node.tag = "ParallelNode" -> "parallel"
    [] node.tag = "ForkNode" -> "fork"
    [] node.tag = "HydrateNode" -> "hydrate"
    [] OTHER -> "skill"

getNodeLabel(node) ==
  CASE node.tag = "SkillNode" -> node.skill.name
    [] node.tag = "PipeNode" ->
         <<"C", "h", "a", "n", "n", "e", "l", " ", "(">> \o Digits(Len(node.nodes)) \o <<")">>
    [] node.tag = "ParallelNode" ->
         <<"C", "o", "n", "j", "u", "r", "e", " ", "(">> \o Digits(Len(node.nodes)) \o <<")">>
    [] node.tag = "ForkNode" ->
         <<"D", "i", "v", "i", "n", "e", ":", " ">> \o Slice(node.condition.when, 15) \o <<".", ".", ".">>
    [] node.tag = "HydrateNode" -> <<"I", "m", "b", "u", "e">>
    [] OTHER -> <<"U", "n", "k", "n", "o", "w", "n">>

getNodeColor(type) ==
  CASE type = "skill" -> inscribeColor
    [] type = "pipe" -> channelColor
    [] type = "parallel" -> conjureColor
    [] type = "fork" -> divineColor
    [] type = "hydrate" -> imbueColor

getNodeIcon(type) ==
  CASE type = "skill" -> "U+25C6"
    [] type = "pipe" -> "U+2192"
    [] type = "parallel" -> "U+2AD8"
    [] type = "fork" -> "U+2387"
    [] type = "hydrate" -> "U+25C8"

getTypeLabel(type) ==
  CASE type = "skill" -> <<"S", "P", "E", "L", "L">>
    [] type = "pipe" -> <<"C", "H", "A", "N", "N", "E", "L">>
    [] type = "parallel" -> <<"C", "O", "N", "J", "U", "R", "E">>
    [] type = "fork" -> <<"D", "I", "V", "I", "N", "E">>
    [] type = "hydrate" -> <<"I", "M", "B", "U", "E">>

renderNodeBox(node) ==
  LET width == node.width
      icon == getNodeIcon(node.type)
      maxLabelLen == width - 4
      truncLabel == IF Len(node.label) > maxLabelLen
                      THEN Slice(node.label, maxLabelLen - 3) \o <<".", ".", ".">>
                      ELSE node.label
      padding == Repeat(" ", IF maxLabelLen - Len(truncLabel) > 0
                               THEN maxLabelLen - Len(truncLabel) ELSE 0)
      topBorder == IF node.selected
                     THEN <<"U+2554">> \o Repeat("U+2550", width - 2) \o <<"U+2557">>
                     ELSE <<"U+250C">> \o Repeat("U+2500", width - 2) \o <<"U+2510">>
      bottomBorder == IF node.selected
                        THEN <<"U+255A">> \o Repeat("U+2550", width - 2) \o <<"U+255D">>
                        ELSE <<"U+2514">> \o Repeat("U+2500", width - 2) \o <<"U+2518">>
      side == IF node.selected THEN "U+2551" ELSE "U+2502"
  IN << topBorder,
        <<side, " ", icon, " ">> \o PadEnd(getTypeLabel(node.type), width - 5) \o <<side>>,
        <<side>> \o Repeat(" ", width - 2) \o <<side>>,
        <<side, " ">> \o truncLabel \o padding \o <<" ", side>>,
        bottomBorder >>

\* gradient[colorIndex] || to.color
GradientAt(gradient, colorIndex, toColor) ==
  IF colorIndex < Len(gradient) THEN gradient[colorIndex + 1] ELSE toColor

Abs(n) == IF n < 0 THEN -n ELSE n

\* a createConnection whose arrow is put on the top line of the target box
createConnectionArrowInBox(from, to) ==
  LET fromX == from.x + (from.width \div 2)
      fromY == from.y + from.height
      toX == to.x + (to.width \div 2)
      toY == to.y
      \* vertical line from source
      nVertical == IF toY > fromY THEN toY - fromY ELSE 0
      \* horizontal line if needed
      dir == IF toX > fromX THEN 1 ELSE -1
      nBetween == Abs(toX - fromX) - 1
      \* arrow at destination
      arrow == << [x |-> toX, y |-> toY, char |-> "U+25BC", color |-> to.color] >>
  IN CHOOSE out \in
       { [fromId |-> from.id, toId |-> to.id,
          points |->
            [k \in 1..nVertical |->
               [x |-> fromX, y |-> fromY + k - 1, char |-> "U+2502",
                color |-> GradientAt(gradient, k - 1, to.color)]]
            \o (IF fromX # toX
                  THEN << [x |-> fromX, y |-> toY - 1,
                           char |-> IF toX > fromX THEN "U+2514" ELSE "U+2518",
                           color |-> GradientAt(gradient, nVertical, to.color)] >>
                       \o [k \in 1..nBetween |->
                             [x |-> fromX + dir * k, y |-> toY - 1,
                              char |-> "U+2500",
                              color |-> GradientAt(gradient, nVertical + k,
                                                   to.color)]]
                       \o << [x |-> toX, y |-> toY - 1,
                              char |-> IF toX > fromX THEN "U+2510" ELSE "U+250C",
                              color |-> GradientAt(gradient,
                                                   nVertical + nBetween + 1,
                                                   to.color)] >>
                  ELSE <<>>)
            \o arrow]
         : gradient \in {createGradient(from.color, to.color,
                                        Abs(toY - fromY) + Abs(toX - fromX))} } : TRUE

createConnection(from, to) ==
  LET fromX == from.x + (from.width \div 2)
      fromY == from.y + from.height
      toX == to.x + (to.width \div 2)
      toY == to.y
      \* vertical line from source
      nVertical == IF toY > fromY THEN toY - fromY ELSE 0
      \* horizontal line if needed
      dir == IF toX > fromX THEN 1 ELSE -1
      nBetween == Abs(toX - fromX) - 1
      \* arrow at destination
      arrow == << [x |-> toX, y |-> toY - 1, char |-> "U+25BC", color |-> to.color] >>
  IN CHOOSE out \in
       { [fromId |-> from.id, toId |-> to.id,
          points |->
            [k \in 1..nVertical |->
               [x |-> fromX, y |-> fromY + k - 1, char |-> "U+2502",
                color |-> GradientAt(gradient, k - 1, to.color)]]
            \o (IF fromX # toX
                  THEN << [x |-> fromX, y |-> toY - 1,
                           char |-> IF toX > fromX THEN "U+2514" ELSE "U+2518",
                           color |-> GradientAt(gradient, nVertical, to.color)] >>
                       \o [k \in 1..nBetween |->
                             [x |-> fromX + dir * k, y |-> toY - 1,
                              char |-> "U+2500",
                              color |-> GradientAt(gradient, nVertical + k,
                                                   to.color)]]
                       \o << [x |-> toX, y |-> toY - 1,
                              char |-> IF toX > fromX THEN "U+2510" ELSE "U+250C",
                              color |-> GradientAt(gradient,
                                                   nVertical + nBetween + 1,
                                                   to.color)] >>
                  ELSE <<>>)
            \o arrow]
         : gradient \in {createGradient(from.color, to.color,
                                        Abs(toY - fromY) + Abs(toX - fromX))} } : TRUE

\* what layoutNode leaves behind: the nodes and connections lists and the
\* id counter as it changed them, and its own return value
Laid(state, node, width, height) ==
  [ok |-> TRUE, state |-> state, node |-> node, width |-> width, height |-> height]

\* nodes.find((n) => n.id === parentId): the index of the first, or 0
FindNode(nodes, parentId) ==
  IF \E i \in 1..Len(nodes) : nodes[i].id = parentId
    THEN CHOOSE i \in 1..Len(nodes) :
           /\ nodes[i].id = parentId
           /\ \A j \in 1..(i - 1) : nodes[j].id # parentId
    ELSE 0

\* a maximum that is always its first argument
FirstOfTwo(a, b) == a

Max2(a, b) == IF a >= b THEN a ELSE b

RECURSIVE layoutNode(_, _, _, _, _, _)
RECURSIVE layoutPipeChildren(_, _, _, _, _, _, _, _, _)
RECURSIVE layoutParallelChildren(_, _, _, _, _, _, _, _)

\* the head of layoutNode: a fresh id, the node's box, the connection from
\* its parent
placeNode(compNode, x, y, parentId, selectedId, state) ==
  LET counter == state.idCounter + 1
      id == NodeId(counter)
      type == getNodeType(compNode)
      blank == [id |-> id, type |-> type, label |-> getNodeLabel(compNode),
                x |-> x, y |-> y, width |-> NODE_WIDTH, height |-> NODE_HEIGHT,
                color |-> getNodeColor(type), selected |-> (id = selectedId),
                lines |-> <<>>]
  IN CHOOSE out \in
       { LET nodes == Append(state.nodes, renderedNode)
             parentNode == FindNode(nodes, parentId)
         IN [node |-> renderedNode,
             state |-> [nodes |-> nodes,
                        connections |->
                          IF parentId # Null /\ parentNode # 0
                            THEN Append(state.connections,
                                        createConnection(nodes[parentNode],
                                                         renderedNode))
                            ELSE state.connections,
                        idCounter |-> counter]]
         : renderedNode \in {[blank EXCEPT !.lines = renderNodeBox(blank)]} } : TRUE

\* a pipe layout that leaves no gap below a child
layoutPipeChildrenAbutting(nodes, i, x, childY, id, selectedId, state, totalWidth, totalHeight) ==
  IF i > Len(nodes)
    THEN [ok |-> TRUE, state |-> state, width |-> totalWidth, height |-> totalHeight]
    ELSE CHOOSE out \in
           { IF ~result.ok THEN result
             ELSE layoutPipeChildren(nodes, i + 1, x,
                                     childY + result.height - NODE_HEIGHT,
                                     id, selectedId, result.state,
                                     Max2(totalWidth, result.width),
                                     totalHeight + result.height + V_SPACING)
             : result \in {layoutNode(nodes[i], x, childY, id, selectedId, state)} } : TRUE

\* a pipe layout that hangs every child on the child before it
layoutPipeChildrenChained(nodes, i, x, childY, id, selectedId, state, totalWidth, totalHeight) ==
  IF i > Len(nodes)
    THEN [ok |-> TRUE, state |-> state, width |-> totalWidth, height |-> totalHeight]
    ELSE CHOOSE out \in
           { IF ~result.ok THEN result
             ELSE layoutPipeChildren(nodes, i + 1, x,
                                     childY + result.height + V_SPACING,
                                     result.node.id, selectedId, result.state,
                                     Max2(totalWidth, result.width),
                                     totalHeight + result.height + V_SPACING)
             : result \in {layoutNode(nodes[i], x, childY, id, selectedId, state)} } : TRUE

\* pipe: vertical layout, from child i on
layoutPipeChildren(nodes, i, x, childY, id, selectedId, state, totalWidth, totalHeight) ==
  IF i > Len(nodes)
    THEN [ok |-> TRUE, state |-> state, width |-> totalWidth, height |-> totalHeight]
    ELSE CHOOSE out \in
           { IF ~result.ok THEN result
             ELSE layoutPipeChildren(nodes, i + 1, x,
                                     childY + result.height + V_SPACING,
                                     id, selectedId, result.state,
                                     Max2(totalWidth, result.width),
                                     totalHeight + result.height + V_SPACING)
             : result \in {layoutNode(nodes[i], x, childY, id, selectedId, state)} } : TRUE

\* a parallel layout that steps one box to the right whatever the child's width
layoutParallelChildrenOneBoxApart(nodes, i, childX, childY, id, selectedId, state, maxChildHeight) ==
  IF i > Len(nodes)
    THEN [ok |-> TRUE, state |-> state, childX |-> childX,
          maxChildHeight |-> maxChildHeight]
    ELSE CHOOSE out \in
           { IF ~result.ok THEN result
             ELSE layoutParallelChildren(nodes, i + 1,
                                         childX + NODE_WIDTH + H_SPACING,
                                         childY, id, selectedId, result.state,
                                         Max2(maxChildHeight, result.height))
             : result \in {layoutNode(nodes[i], childX, childY, id, selectedId, state)} } : TRUE

\* parallel: horizontal layout, from child i on
layoutParallelChildren(nodes, i, childX, childY, id, selectedId, state, maxChildHeight) ==
  IF i > Len(nodes)
    THEN [ok |-> TRUE, state |-> state, childX |-> childX,
          maxChildHeight |-> maxChildHeight]
    ELSE CHOOSE out \in
           { IF ~result.ok THEN result
             ELSE layoutParallelChildren(nodes, i + 1,
                                         childX + result.width + H_SPACING,
                                         childY, id, selectedId, result.state,
                                         Max2(maxChildHeight, result.height))
             : result \in {layoutNode(nodes[i], childX, childY, id, selectedId, state)} } : TRUE

\* a fork layout that puts the else branch where the then branch stands
layoutForkElseAtThen(compNode, x, y, placed, selectedId) ==
  LET id == placed.node.id
      childY == y + NODE_HEIGHT + V_SPACING
  IN CHOOSE out \in
       { IF ~thenResult.ok THEN thenResult
         ELSE IF compNode.condition.else # Undefined
           THEN CHOOSE out \in
                  { IF ~elseResult.ok THEN elseResult
                    ELSE Laid(elseResult.state, placed.node,
                              thenResult.width + H_SPACING + elseResult.width,
                              NODE_HEIGHT + V_SPACING
                                + Max2(thenResult.height, elseResult.height))
                    : elseResult \in {layoutNode(compNode.condition.else,
                                                 x, childY, id,
                                                 selectedId, thenResult.state)} } : TRUE
           ELSE Laid(thenResult.state, placed.node, thenResult.width,
                     NODE_HEIGHT + V_SPACING + thenResult.height)
         : thenResult \in {layoutNode(compNode.condition.then, x, childY, id, selectedId,
                                      placed.state)} } : TRUE

\* fork: two branches
layoutFork(compNode, x, y, placed, selectedId) ==
  LET id == placed.node.id
      childY == y + NODE_HEIGHT + V_SPACING
  IN CHOOSE out \in
       { IF ~thenResult.ok THEN thenResult
         ELSE IF compNode.condition.else # Undefined
           THEN CHOOSE out \in
                  { IF ~elseResult.ok THEN elseResult
                    ELSE Laid(elseResult.state, placed.node,
                              thenResult.width + H_SPACING + elseResult.width,
                              NODE_HEIGHT + V_SPACING
                                + Max2(thenResult.height, elseResult.height))
                    : elseResult \in {layoutNode(compNode.condition.else,
                                                 x + thenResult.width + H_SPACING, childY, id,
                                                 selectedId, thenResult.state)} } : TRUE
           ELSE Laid(thenResult.state, placed.node, thenResult.width,
                     NODE_HEIGHT + V_SPACING + thenResult.height)
         : thenResult \in {layoutNode(compNode.condition.then, x, childY, id, selectedId,
                                      placed.state)} } : TRUE

\* a hydrate layout that reports the inner node's height as its own
layoutHydrateChildHeight(compNode, x, y, placed, selectedId) ==
  LET childY == y + NODE_HEIGHT + V_SPACING
  IN CHOOSE out \in
       { IF ~result.ok THEN result
         ELSE Laid(result.state, placed.node, result.width, result.height)
         : result \in {layoutNode(compNode.node, x, childY, placed.node.id, selectedId,
                                  placed.state)} } : TRUE

\* hydrate: layout inner node
layoutHydrate(compNode, x, y, placed, selectedId) ==
  LET childY == y + NODE_HEIGHT + V_SPACING
  IN CHOOSE out \in
       { IF ~result.ok THEN result
         ELSE Laid(result.state, placed.node, result.width,
                   NODE_HEIGHT + V_SPACING + result.height)
         : result \in {layoutNode(compNode.node, x, childY, placed.node.id, selectedId,
                                  placed.state)} } : TRUE

\* the tail of layoutNode: the children, by node type
layoutChildren(compNode, x, y, placed, selectedId) ==
  CASE compNode.tag = "PipeNode" ->
         CHOOSE out \in
           { IF ~r.ok THEN r ELSE Laid(r.state, placed.node, r.width, r.height)
             : r \in {layoutPipeChildren(compNode.nodes, 1, x,
                                         y + NODE_HEIGHT + V_SPACING, placed.node.id,
                                         selectedId, placed.state, NODE_WIDTH, NODE_HEIGHT)} } : TRUE
    [] compNode.tag = "ParallelNode" ->
         CHOOSE out \in
           { IF ~r.ok THEN r
             ELSE Laid(r.state, placed.node, r.childX - x - H_SPACING,
                       NODE_HEIGHT + V_SPACING + r.maxChildHeight)
             : r \in {layoutParallelChildren(compNode.nodes, 1, x,
                                             y + NODE_HEIGHT + V_SPACING, placed.node.id,
                                             selectedId, placed.state, 0)} } : TRUE
    [] compNode.tag = "ForkNode" -> layoutFork(compNode, x, y, placed, selectedId)
    [] compNode.tag = "HydrateNode" ->
         layoutHydrate(compNode, x, y, placed, selectedId)
    [] OTHER -> Laid(placed.state, placed.node, NODE_WIDTH, NODE_HEIGHT)

\* a layoutNode that puts every node one spacing to the right
layoutNodeShifted(compNode, x, y, parentId, selectedId, state) ==
  IF compNode = Undefined
    THEN [ok |-> FALSE, error |-> TypeError.error,
          state |-> [state EXCEPT !.idCounter = @ + 1]]
    ELSE CHOOSE out \in
           { layoutChildren(compNode, x + H_SPACING, y, placed, selectedId)
             : placed \in {placeNode(compNode, x + H_SPACING, y, parentId,
                                      selectedId, state)} } : TRUE

\* generateId() runs first; then the type guards read compNode._tag, a
\* TypeError on undefined
layoutNode(compNode, x, y, parentId, selectedId, state) ==
  IF compNode = Undefined
    THEN [ok |-> FALSE, error |-> TypeError.error,
          state |-> [state EXCEPT !.idCounter = @ + 1]]
    ELSE CHOOSE out \in
           { layoutChildren(compNode, x, y, placed, selectedId)
             : placed \in {placeNode(compNode, x, y, parentId, selectedId, state)} } : TRUE

\* a layoutComposition that starts its ids again at node-1 on every call
layoutCompositionFromZero(node, selectedId, counter) ==
  IF node = Undefined
    THEN [ok |-> TRUE, idCounter |-> counter,
          value |-> [nodes |-> <<>>, connections |-> <<>>, width |-> 0, height |-> 0]]
    ELSE CHOOSE out \in
           { IF ~result.ok
               THEN [ok |-> FALSE, idCounter |-> result.state.idCounter,
                     error |-> result.error]
               ELSE [ok |-> TRUE, idCounter |-> result.state.idCounter,
                     value |-> [nodes |-> result.state.nodes,
                                connections |-> result.state.connections,
                                width |-> result.width,
                                height |-> result.height]]
             : result \in {layoutNode(node, 0, 0, Null, selectedId,
                                      [nodes |-> <<>>, connections |-> <<>>,
                                       idCounter |-> 0])} } : TRUE

\* a layoutComposition that takes an id before it looks at its node
layoutCompositionCountingNull(node, selectedId, counter) ==
  IF node = Undefined
    THEN [ok |-> TRUE, idCounter |-> counter + 1,
          value |-> [nodes |-> <<>>, connections |-> <<>>, width |-> 0, height |-> 0]]
    ELSE CHOOSE out \in
           { IF ~result.ok
               THEN [ok |-> FALSE, idCounter |-> result.state.idCounter,
                     error |-> result.error]
               ELSE [ok |-> TRUE, idCounter |-> result.state.idCounter,
                     value |-> [nodes |-> result.state.nodes,
                                connections |-> result.state.connections,
                                width |-> result.width,
                                height |-> result.height]]
             : result \in {layoutNode(node, 0, 0, Null, selectedId,
                                      [nodes |-> <<>>, connections |-> <<>>,
                                       idCounter |-> counter])} } : TRUE

\* layoutComposition with the module's idCounter passed in; the new counter
\* is handed back beside what the function returns or throws
layoutComposition(node, selectedId, counter) ==
  IF node = Undefined
    THEN [ok |-> TRUE, idCounter |-> counter,
          value |-> [nodes |-> <<>>, connections |-> <<>>, width |-> 0, height |-> 0]]
    ELSE CHOOSE out \in
           { IF ~result.ok
               THEN [ok |-> FALSE, idCounter |-> result.state.idCounter,
                     error |-> result.error]
               ELSE [ok |-> TRUE, idCounter |-> result.state.idCounter,
                     value |-> [nodes |-> result.state.nodes,
                                connections |-> result.state.connections,
                                width |-> result.width,
                                height |-> result.height]]
             : result \in {layoutNode(node, 0, 0, Null, selectedId,
                                      [nodes |-> <<>>, connections |-> <<>>,
                                       idCounter |-> counter])} } : TRUE

(***************************************************************************)
(* tui/components/graph: the drawing of a laid-out graph                   *)
(***************************************************************************)
NoComposition ==
  <<" ", " ", "N", "o", " ", "c", "o", "m", "p", "o", "s", "i", "t", "i",
     "o", "n", " ", "y", "e", "t", ".", " ", "P", "r", "e", "s", "s", " ",
     "\"", "s", "\"", " ", "t", "o", " ", "i", "n", "s", "c", "r", "i",
     "b", "e", " ", "a", " ", "n", "e", "w", " ", "s", "p", "e", "l", "l",
     ".">>

\* the margin the buffer adds to the graph's width and height
BufferMargin == 2

RECURSIVE ConcatAll(_)
ConcatAll(lists) ==
  IF lists = <<>> THEN <<>> ELSE Head(lists) \o ConcatAll(Tail(lists))

\* the greatest of a set of indices, or 0 if there is none
LastIndex(indices) ==
  IF indices = {} THEN 0
  ELSE CHOOSE i \in indices : \A j \in indices : j <= i

\* a cell that shows a connection point wherever there is one
CellAtConnectionsOnTop(x, y, nodesHere, pointsHere) ==
  LET node == LastIndex({i \in 1..Len(nodesHere) :
                           /\ nodesHere[i].x <= x
                           /\ x < nodesHere[i].x
                                    + Len(nodesHere[i].lines[y - nodesHere[i].y + 1])})
      point == LastIndex({i \in 1..Len(pointsHere) : pointsHere[i].x = x})
  IN IF point # 0
       THEN pointsHere[point].char
       ELSE IF node # 0
         THEN nodesHere[node].lines[y - nodesHere[node].y + 1][x - nodesHere[node].x + 1]
         ELSE " "

\* the character of cell (x, y): of the last node box that covers it, else
\* of the last connection point on it, else the blank it started with
CellAt(x, y, nodesHere, pointsHere) ==
  LET node == LastIndex({i \in 1..Len(nodesHere) :
                           /\ nodesHere[i].x <= x
                           /\ x < nodesHere[i].x
                                    + Len(nodesHere[i].lines[y - nodesHere[i].y + 1])})
      point == LastIndex({i \in 1..Len(pointsHere) : pointsHere[i].x = x})
  IN IF node # 0
       THEN nodesHere[node].lines[y - nodesHere[node].y + 1][x - nodesHere[node].x + 1]
       ELSE IF point # 0 THEN pointsHere[point].char ELSE " "

\* row y of the buffer, joined
RowAt(y, g, points) ==
  LET OnRow(n) == n.y <= y /\ y < n.y + Len(n.lines)
      OnLine(p) == p.y = y
  IN CHOOSE row \in
       { [col \in 1..(g.width + BufferMargin + 1) |->
            CellAt(col - 1, y, nodesHere, pointsHere)]
         : nodesHere \in {SelectSeq(g.nodes, OnRow)},
           pointsHere \in {SelectSeq(points, OnLine)} } : TRUE

\* The buffer starts blank; every connection point is written in list
\* order, then every character of every node's lines in list order, each
\* write only where the buffer has a cell.  So a cell shows the last node
\* character written to it, else the last connection point, else a blank.
\* (The color buffer is written alongside and is not returned.)
renderGraphToStrings(g) ==
  IF Len(g.nodes) = 0 THEN <<NoComposition>>
  ELSE CHOOSE buffer \in
         { [row \in 1..(g.height + BufferMargin + 1) |-> RowAt(row - 1, g, points)]
           : points \in {ConcatAll([c \in 1..Len(g.connections) |->
                                      g.connections[c].points])} } : TRUE

(***************************************************************************)
(* tui/tui-state: the state of the terminal interface and its reducer      *)
(*                                                                         *)
(* A State is a record of the fields of the State interface; arrays are    *)
(* sequences, and an index of the source is one less than the index of     *)
(* the sequence.  An Action is a record with its type and its payload.     *)
(***************************************************************************)
\* null where an object is expected (a selected, a composition)
NullValue == [tag |-> "null"]

\* array[index]
ArrayAt(array, index) ==
  IF index + 1 \in DOMAIN array THEN array[index + 1] ELSE Undefined

\* value ?? null
OrNull(value) == IF value = Undefined THEN NullValue ELSE value

\* !value for an object, null or undefined
Falsy(value) == value \in {Undefined, NullValue}

Min2(a, b) == IF a <= b THEN a ELSE b

Modes == {"main", "grimoire", "workspace", "compose", "search", "help"}

createState(localSkills) ==
  [mode |-> "main",
   selectedIndex |-> 0,
   workspace |-> <<>>,
   localSkills |-> localSkills,
   composition |-> NullValue,
   statusMessage |-> <<"W", "e", "l", "c", "o", "m", "e", " ", "t", "o", " ", "S", "k", "i", "l", "l", "i", "x", "e", "r">>,
   searchQuery |-> <<>>,
   searchResults |-> <<>>]

\* a getMaxIndex that takes the length of a list for its last index
getMaxIndexLength(state) ==
  CASE state.mode = "main" -> 4
    [] state.mode = "grimoire" -> Max2(0, Len(state.localSkills))
    [] state.mode = "workspace" -> Max2(0, Len(state.workspace))
    [] state.mode = "search" -> Max2(0, Len(state.searchResults))
    [] state.mode = "compose" -> 0
    [] OTHER -> 0

getMaxIndex(state) ==
  CASE state.mode = "main" -> 4
    [] state.mode = "grimoire" -> Max2(0, Len(state.localSkills) - 1)
    [] state.mode = "workspace" -> Max2(0, Len(state.workspace) - 1)
    [] state.mode = "search" -> Max2(0, Len(state.searchResults) - 1)
    [] state.mode = "compose" -> 0
    [] OTHER -> 0

getSelectedSkill(state) ==
  CASE state.mode = "grimoire" -> OrNull(ArrayAt(state.localSkills, state.selectedIndex))
    [] state.mode = "workspace" -> OrNull(ArrayAt(state.workspace, state.selectedIndex))
    [] state.mode = "search" -> OrNull(ArrayAt(state.searchResults, state.selectedIndex))
    [] OTHER -> NullValue

\* an isSkillInWorkspace that finds nothing
isSkillInWorkspaceNever(state, skillId) == FALSE

isSkillInWorkspace(state, skillId) ==
  \E i \in 1..Len(state.workspace) : state.workspace[i].id = skillId

getModeMessage(mode) ==
  CASE mode = "main" -> <<"W", "e", "l", "c", "o", "m", "e", " ", "t", "o", " ", "S", "k", "i", "l", "l", "i", "x", "e", "r">>
    [] mode = "grimoire" -> <<"S", "k", "i", "l", "l", " ", "l", "i", "b", "r", "a", "r", "y", " ", "-", " ", "p", "r", "e", "s", "s", " ", "i", " ", "t", "o", " ", "i", "n", "s", "t", "a", "l", "l">>
    [] mode = "workspace" -> <<"Y", "o", "u", "r", " ", "i", "n", "s", "t", "a", "l", "l", "e", "d", " ", "s", "k", "i", "l", "l", "s">>
    [] mode = "compose" -> <<"B", "u", "i", "l", "d", " ", "y", "o", "u", "r", " ", "c", "o", "m", "p", "o", "s", "i", "t", "i", "o", "n">>
    [] mode = "search" -> <<"S", "e", "a", "r", "c", "h", " ", "f", "o", "r", " ", "s", "k", "i", "l", "l", "s">>
    [] mode = "help" -> <<"H", "e", "l", "p">>

NAVIGATE(state, action) ==
  LET maxIndex == getMaxIndex(state)
      newIndex == IF action.direction = "down"
                    THEN Min2(state.selectedIndex + 1, maxIndex)
                    ELSE Max2(state.selectedIndex - 1, 0)
  IN [state EXCEPT !.selectedIndex = newIndex]

SET_MODE(state, action) ==
  [state EXCEPT !.mode = action.mode,
                !.selectedIndex = 0,
                !.statusMessage = getModeMessage(action.mode),
                !.searchQuery = IF action.mode = "search" THEN <<>> ELSE @,
                !.searchResults = IF action.mode = "search" THEN <<>> ELSE @]

\* a BACK that leaves the selection where it was
BACK_KeepingIndex(state) ==
  IF state.mode = "main" THEN state
  ELSE [state EXCEPT !.mode = "main",
                     !.statusMessage = <<"B", "a", "c", "k", " ", "t", "o", " ", "m", "a", "i", "n">>]

BACK(state) ==
  IF state.mode = "main" THEN state
  ELSE [state EXCEPT !.mode = "main",
                     !.selectedIndex = 0,
                     !.statusMessage = <<"B", "a", "c", "k", " ", "t", "o", " ", "m", "a", "i", "n">>]

INSTALL_SKILL(state) ==
  IF state.mode # "grimoire" /\ state.mode # "search" THEN state
  ELSE LET selected == getSelectedSkill(state)
       IN IF Falsy(selected)
            THEN [state EXCEPT !.statusMessage = <<"N", "o", " ", "s", "k", "i", "l", "l", " ", "s", "e", "l", "e", "c", "t", "e", "d">>]
            ELSE IF isSkillInWorkspace(state, selected.id)
              THEN [state EXCEPT !.statusMessage =
                                   selected.name \o <<" ", "a", "l", "r", "e", "a", "d", "y", " ", "i", "n", "s", "t", "a", "l", "l", "e", "d">>]
              ELSE [state EXCEPT !.workspace = Append(@, selected),
                                 !.statusMessage = <<"U+2713", " ", "I", "n", "s", "t", "a", "l", "l", "e", "d", " ">> \o selected.name]

\* array.filter((_, i) => i !== index)
WithoutIndex(array, index) ==
  LET kept == {i \in 1..Len(array) : i - 1 # index}
  IN [k \in 1..Cardinality(kept) |->
        array[CHOOSE i \in kept : Cardinality({j \in kept : j < i}) = k - 1]]

\* a REMOVE_SKILL that leaves the selection where it was
REMOVE_SKILL_KeepingIndex(state) ==
  IF state.mode # "workspace" THEN state
  ELSE IF Len(state.workspace) = 0
    THEN [state EXCEPT !.statusMessage = <<"W", "o", "r", "k", "s", "p", "a", "c", "e", " ", "i", "s", " ", "e", "m", "p", "t", "y">>]
    ELSE LET selected == ArrayAt(state.workspace, state.selectedIndex)
         IN IF Falsy(selected) THEN state
            ELSE [state EXCEPT !.workspace = WithoutIndex(@, state.selectedIndex),
                               !.statusMessage = <<"U+2717", " ", "R", "e", "m", "o", "v", "e", "d", " ">> \o selected.name]

REMOVE_SKILL(state) ==
  IF state.mode # "workspace" THEN state
  ELSE IF Len(state.workspace) = 0
    THEN [state EXCEPT !.statusMessage = <<"W", "o", "r", "k", "s", "p", "a", "c", "e", " ", "i", "s", " ", "e", "m", "p", "t", "y">>]
    ELSE LET selected == ArrayAt(state.workspace, state.selectedIndex)
             newWorkspace == WithoutIndex(state.workspace, state.selectedIndex)
             newIndex == Min2(state.selectedIndex, Max2(0, Len(newWorkspace) - 1))
         IN IF Falsy(selected) THEN state
            ELSE [state EXCEPT !.workspace = newWorkspace,
                               !.selectedIndex = newIndex,
                               !.statusMessage = <<"U+2717", " ", "R", "e", "m", "o", "v", "e", "d", " ">> \o selected.name]

\* labels[compType] in a template string
CompositionLabel(compType) ==
  CASE compType = "pipe" -> <<"p", "i", "p", "e">>
    [] compType = "parallel" -> <<"p", "a", "r", "a", "l", "l", "e", "l">>
    [] compType = "fork" -> <<"f", "o", "r", "k">>
    [] OTHER -> <<"u", "n", "d", "e", "f", "i", "n", "e", "d">>

\* an ADD_TO_COMPOSITION that wraps with the new skill first
ADD_TO_COMPOSITION_SkillFirst(state, action) ==
  IF state.mode # "grimoire" /\ state.mode # "workspace" THEN state
  ELSE LET selected == getSelectedSkill(state)
           compType == action.compositionType
           skillNode == [type |-> "skill", skill |-> selected]
           newComp ==
             IF Falsy(state.composition)
               THEN [type |-> compType, children |-> <<skillNode>>]
               ELSE IF state.composition.type = compType
                 THEN [state.composition EXCEPT !.children = Append(@, skillNode)]
                 ELSE [type |-> compType,
                       children |-> <<skillNode, state.composition>>]
       IN IF Falsy(selected)
            THEN [state EXCEPT !.statusMessage = <<"N", "o", " ", "s", "k", "i", "l", "l", " ", "s", "e", "l", "e", "c", "t", "e", "d">>]
            ELSE [state EXCEPT !.composition = newComp,
                               !.mode = "compose",
                               !.statusMessage = <<"A", "d", "d", "e", "d", " ">> \o selected.name \o <<" ", "t", "o", " ">> \o CompositionLabel(compType)]

ADD_TO_COMPOSITION(state, action) ==
  IF state.mode # "grimoire" /\ state.mode # "workspace" THEN state
  ELSE LET selected == getSelectedSkill(state)
           compType == action.compositionType
           skillNode == [type |-> "skill", skill |-> selected]
           newComp ==
             IF Falsy(state.composition)
               THEN [type |-> compType, children |-> <<skillNode>>]
               ELSE IF state.composition.type = compType
                 THEN [state.composition EXCEPT !.children = Append(@, skillNode)]
                 ELSE [type |-> compType,
                       children |-> <<state.composition, skillNode>>]
       IN IF Falsy(selected)
            THEN [state EXCEPT !.statusMessage = <<"N", "o", " ", "s", "k", "i", "l", "l", " ", "s", "e", "l", "e", "c", "t", "e", "d">>]
            ELSE [state EXCEPT !.composition = newComp,
                               !.mode = "compose",
                               !.statusMessage = <<"A", "d", "d", "e", "d", " ">> \o selected.name \o <<" ", "t", "o", " ">>
                                                   \o CompositionLabel(compType)]

CLEAR_COMPOSITION(state) ==
  [state EXCEPT !.composition = NullValue,
                !.statusMessage = <<"C", "o", "m", "p", "o", "s", "i", "t", "i", "o", "n", " ", "c", "l", "e", "a", "r", "e", "d">>]

SEARCH_INPUT(state, action) ==
  IF state.mode # "search" THEN state
  ELSE [state EXCEPT !.searchQuery = Append(state.searchQuery, action.char)]

\* searchQuery.slice(0, -1)
SEARCH_BACKSPACE(state) ==
  IF state.mode # "search" THEN state
  ELSE [state EXCEPT !.searchQuery =
                       SubSeq(state.searchQuery, 1, Len(state.searchQuery) - 1)]

\* the three results of a search for q at clock reading now (Date.now(),
\* carried by the action; the three readings of one submit are taken as one)
SearchResults(q, now) ==
  << [id |-> <<"g", "h", "-">> \o Digits(now) \o <<"-", "1">>, name |-> q \o <<"-", "s", "k", "i", "l", "l">>,
      description |-> <<"A", " ", "s", "k", "i", "l", "l", " ", "f", "o", "r", " ">> \o q, source |-> "github"],
     [id |-> <<"g", "h", "-">> \o Digits(now) \o <<"-", "2">>, name |-> q \o <<"-", "u", "t", "i", "l", "s">>,
      description |-> q \o <<" ", "u", "t", "i", "l", "i", "t", "i", "e", "s">>, source |-> "github"],
     [id |-> <<"g", "h", "-">> \o Digits(now) \o <<"-", "3">>, name |-> q \o <<"-", "p", "r", "o">>,
      description |-> <<"P", "r", "o", "f", "e", "s", "s", "i", "o", "n", "a", "l", " ">> \o q, source |-> "github"] >>

SEARCH_SUBMIT(state, action) ==
  IF state.mode # "search" \/ state.searchQuery = <<>> THEN state
  ELSE LET found == SearchResults(state.searchQuery, action.now)
       IN [state EXCEPT !.searchResults = found,
                        !.selectedIndex = 0,
                        !.statusMessage = <<"F", "o", "u", "n", "d", " ">> \o Digits(Len(found))
                                            \o <<" ", "r", "e", "s", "u", "l", "t", "s">>]

SET_STATUS(state, action) == [state EXCEPT !.statusMessage = action.message]

\* the modes of the main menu, by menu index
MenuModes == <<"grimoire", "workspace", "search", "compose", "help">>

RECURSIVE reducer(_, _)

handleSelect(state) ==
  CASE state.mode = "main" ->
         IF state.selectedIndex + 1 \in DOMAIN MenuModes
           THEN reducer(state, [type |-> "SET_MODE",
                                mode |-> MenuModes[state.selectedIndex + 1]])
           ELSE state
    [] state.mode \in {"grimoire", "search"} ->
         reducer(state, [type |-> "INSTALL_SKILL"])
    [] state.mode = "workspace" ->
         LET selected == getSelectedSkill(state)
         IN IF ~Falsy(selected)
              THEN [state EXCEPT !.statusMessage =
                                   selected.name \o <<" ", "s", "e", "l", "e", "c", "t", "e", "d", " ", "-", " ", "u", "s", "e", " ", "p", "/", "a", "/", "f", " ", "t", "o", " ", "c", "o", "m", "p", "o", "s", "e">>]
              ELSE state
    [] OTHER -> state

reducer(state, action) ==
  LET actionType == IF action.type = "SUMMON_SKILL" THEN "INSTALL_SKILL"
                    ELSE IF action.type = "BANISH_SKILL" THEN "REMOVE_SKILL"
                    ELSE action.type
  IN CASE actionType = "NAVIGATE" -> NAVIGATE(state, action)
       [] actionType = "SET_MODE" -> SET_MODE(state, action)
       [] actionType = "BACK" -> BACK(state)
       [] actionType = "INSTALL_SKILL" -> INSTALL_SKILL(state)
       [] actionType = "REMOVE_SKILL" -> REMOVE_SKILL(state)
       [] actionType = "ADD_TO_COMPOSITION" -> ADD_TO_COMPOSITION(state, action)
       [] actionType = "CLEAR_COMPOSITION" -> CLEAR_COMPOSITION(state)
       [] actionType = "SEARCH_INPUT" -> SEARCH_INPUT(state, action)
       [] actionType = "SEARCH_BACKSPACE" -> SEARCH_BACKSPACE(state)
       [] actionType = "SEARCH_SUBMIT" -> SEARCH_SUBMIT(state, action)
       [] actionType = "SET_STATUS" -> SET_STATUS(state, action)
       [] actionType = "SELECT" -> handleSelect(state)
       [] actionType = "QUIT" -> state
       [] OTHER -> state

\* the keys of the terminal: control characters and escape sequences by
\* their code points, printable characters as themselves
CtrlC == "U+0003"
Escape == "U+001B"
ArrowUp == "U+001B[A"
ArrowDown == "U+001B[B"
ArrowRight == "U+001B[C"
CarriageReturn == "U+000D"
LineFeed == "U+000A"
Delete == "U+007F"
Backspace == "U+0008"

\* key.length === 1 && key.charCodeAt(0) >= 32 && key.charCodeAt(0) < 127
PrintableKeys ==
  {"q", "j", "k", "?", "g", "w", "/", "c", "i", "x", "p", "a", "f", "z"}

Keys ==
  PrintableKeys \cup {CtrlC, Escape, ArrowUp, ArrowDown, ArrowRight,
                      CarriageReturn, LineFeed, Delete, Backspace}

handleSearchKey(key, state) ==
  IF key = Escape THEN [type |-> "BACK"]
  ELSE IF key = Delete \/ key = Backspace THEN [type |-> "SEARCH_BACKSPACE"]
  ELSE IF key = CarriageReturn \/ key = LineFeed THEN [type |-> "SEARCH_SUBMIT"]
  ELSE IF Len(state.searchResults) > 0 /\ (key = "j" \/ key = ArrowDown)
    THEN [type |-> "NAVIGATE", direction |-> "down"]
  ELSE IF Len(state.searchResults) > 0 /\ (key = "k" \/ key = ArrowUp)
    THEN [type |-> "NAVIGATE", direction |-> "up"]
  ELSE IF Len(state.searchResults) > 0 /\ key = "i" THEN [type |-> "INSTALL_SKILL"]
  ELSE IF key \in PrintableKeys THEN [type |-> "SEARCH_INPUT", char |-> key]
  ELSE NullValue

\* a keyToAction that lets help mode take the Escape key too
keyToActionHelpFirst(key, state) ==
  IF key = CtrlC THEN NullValue
  ELSE IF key = "q" /\ state.mode # "search" THEN [type |-> "QUIT"]
  ELSE IF state.mode = "help" THEN [type |-> "SET_MODE", mode |-> "main"]
  ELSE IF key = Escape
    THEN IF state.mode = "main" THEN NullValue ELSE [type |-> "BACK"]
  ELSE IF state.mode = "search" THEN handleSearchKey(key, state)
  ELSE IF key = "j" \/ key = ArrowDown THEN [type |-> "NAVIGATE", direction |-> "down"]
  ELSE IF key = "k" \/ key = ArrowUp THEN [type |-> "NAVIGATE", direction |-> "up"]
  ELSE IF key = CarriageReturn \/ key = LineFeed THEN [type |-> "SELECT"]
  ELSE IF key = "?" THEN [type |-> "SET_MODE", mode |-> "help"]
  ELSE IF key = "g" THEN [type |-> "SET_MODE", mode |-> "grimoire"]
  ELSE IF key = "w" THEN [type |-> "SET_MODE", mode |-> "workspace"]
  ELSE IF key = "/" THEN [type |-> "SET_MODE", mode |-> "search"]
  ELSE IF key = "c" THEN [type |-> "SET_MODE", mode |-> "compose"]
  ELSE IF key = "i" /\ state.mode = "grimoire" THEN [type |-> "INSTALL_SKILL"]
  ELSE IF key = "x" /\ state.mode = "workspace" THEN [type |-> "REMOVE_SKILL"]
  ELSE IF key = "p" /\ state.mode \in {"grimoire", "workspace"}
    THEN [type |-> "ADD_TO_COMPOSITION", compositionType |-> "pipe"]
  ELSE IF key = "a" /\ state.mode \in {"grimoire", "workspace"}
    THEN [type |-> "ADD_TO_COMPOSITION", compositionType |-> "parallel"]
  ELSE IF key = "f" /\ state.mode \in {"grimoire", "workspace"}
    THEN [type |-> "ADD_TO_COMPOSITION", compositionType |-> "fork"]
  ELSE NullValue

keyToAction(key, state) ==
  IF key = CtrlC THEN NullValue
  ELSE IF key = "q" /\ state.mode # "search" THEN [type |-> "QUIT"]
  ELSE IF key = Escape
    THEN IF state.mode = "main" THEN NullValue ELSE [type |-> "BACK"]
  ELSE IF state.mode = "help" THEN [type |-> "SET_MODE", mode |-> "main"]
  ELSE IF state.mode = "search" THEN handleSearchKey(key, state)
  ELSE IF key = "j" \/ key = ArrowDown THEN [type |-> "NAVIGATE", direction |-> "down"]
  ELSE IF key = "k" \/ key = ArrowUp THEN [type |-> "NAVIGATE", direction |-> "up"]
  ELSE IF key = CarriageReturn \/ key = LineFeed THEN [type |-> "SELECT"]
  ELSE IF key = "?" THEN [type |-> "SET_MODE", mode |-> "help"]
  ELSE IF key = "g" THEN [type |-> "SET_MODE", mode |-> "grimoire"]
  ELSE IF key = "w" THEN [type |-> "SET_MODE", mode |-> "workspace"]
  ELSE IF key = "/" THEN [type |-> "SET_MODE", mode |-> "search"]
  ELSE IF key = "c" THEN [type |-> "SET_MODE", mode |-> "compose"]
  ELSE IF key = "i" /\ state.mode = "grimoire" THEN [type |-> "INSTALL_SKILL"]
  ELSE IF key = "x" /\ state.mode = "workspace" THEN [type |-> "REMOVE_SKILL"]
  ELSE IF key = "p" /\ state.mode \in {"grimoire", "workspace"}
    THEN [type |-> "ADD_TO_COMPOSITION", compositionType |-> "pipe"]
  ELSE IF key = "a" /\ state.mode \in {"grimoire", "workspace"}
    THEN [type |-> "ADD_TO_COMPOSITION", compositionType |-> "parallel"]
  ELSE IF key = "f" /\ state.mode \in {"grimoire", "workspace"}
    THEN [type |-> "ADD_TO_COMPOSITION", compositionType |-> "fork"]
  ELSE NullValue

(***************************************************************************)
(* Watch mode                                                              *)
(*                                                                         *)
(* The watcher is a record: debounceTimer is null or the Timeout object    *)
(* of the last setTimeout, with its deadline and whether its callback has  *)
(* run; building is the flag of the callbacks; now is the clock in ticks.  *)
(* Two fields are history: running counts the rebuilds that have started   *)
(* and not finished, log lists the change events and the starts of         *)
(* rebuilds in the order they happened.                                    *)
(***************************************************************************)
\* options.debounceMs, in ticks of the clock
DebounceTicks == 2

\* the state when fs.watch has been called: the initial build is over
watchCommand(outcome) ==
  [debounceTimer |-> NullValue, building |-> FALSE, now |-> 0,
   initial |-> outcome, closed |-> FALSE, running |-> 0, log |-> <<>>]

\* the Timeout object is there and its callback has neither run nor been
\* cleared
TimerPending(w) == w.debounceTimer # NullValue /\ ~w.debounceTimer.ran

\* a watcher callback that sets the timer during a rebuild too
watchListenerWhileBuilding(w, eventType) ==
  IF eventType # "change" THEN w
  ELSE [w EXCEPT !.debounceTimer =
                   [deadline |-> w.now + DebounceTicks, ran |-> FALSE]]

\* the callback of fs.watch: clearTimeout of the old timer and a new one
watchListener(w, eventType) ==
  IF eventType # "change" THEN w
  ELSE IF w.building THEN w
  ELSE [w EXCEPT !.debounceTimer =
                   [deadline |-> w.now + DebounceTicks, ran |-> FALSE]]

\* the timer's callback up to its await: the rebuild starts
rebuildStarts(w) ==
  [w EXCEPT !.debounceTimer.ran = TRUE,
            !.building = TRUE,
            !.running = @ + 1,
            !.log = Append(@, [event |-> "rebuild", at |-> w.now])]

\* the timer's callback after its await: the build has returned or thrown
rebuildEnds(w) ==
  [w EXCEPT !.building = FALSE, !.running = @ - 1]

(***************************************************************************)
(* The values a forge file calls the constructors with                     *)
(***************************************************************************)
\* skill definitions: two that share a name, one whose instructions need
\* trimming, one whose name is longer than a box is wide, one with an empty
\* name and blank instructions
SkillDefs ==
  { [name |-> <<"a">>, description |-> <<"d", "1">>, instructions |-> <<"A">>],
    [name |-> <<"a">>, description |-> UndefinedStr,
     instructions |-> <<" ", "B", "\n">>],
    [name |-> <<"d", "a", "t", "a", "d", "o", "g", "-", "s", "e", "a", "r", "c", "h", "-", "a", "n", "d", "-", "s", "u", "m", "m", "a", "r", "i", "z", "e">>,
     description |-> <<"d", "2">>, instructions |-> <<"C">>],
    [name |-> <<>>, description |-> UndefinedStr, instructions |-> <<" ", "\n">>] }

\* fork conditions: a real one, the empty string, and a missing one
Whens ==
  { <<"s", "e", "v", "e", "r", "i", "t", "y", " ", "=", "=", "=", " ", "\"", "c", "r", "i", "t", "i", "c", "a", "l", "\"">>,
    <<>>, UndefinedStr }

\* config objects of the forge file.  ref is the object's identity: the
\* first two are distinct objects with equal contents, the third is {}
ConfigObjects ==
  { [ref |-> 1, entries |-> {<<"k", Num(1)>>}],
    [ref |-> 2, entries |-> {<<"k", Num(1)>>}],
    [ref |-> 3, entries |-> {}] }

ConfigArgs == ConfigObjects \cup {Undefined}

RECURSIVE CountNodes(_)
RECURSIVE CountAll(_)
\* the number of composition nodes in a tree
CountNodes(node) ==
  CASE node.tag = "SkillNode" -> 1
    [] node.tag \in {"PipeNode", "ParallelNode"} -> 1 + CountAll(node.nodes)
    [] node.tag = "ForkNode" ->
         1 + CountNodes(node.condition.then) + CountNodes(node.condition.else)
    [] node.tag = "HydrateNode" -> 1 + CountNodes(node.node)
    [] OTHER -> 0
\* the number of composition nodes in a list of trees
CountAll(nodes) ==
  IF nodes = <<>> THEN 0 ELSE CountNodes(Head(nodes)) + CountAll(Tail(nodes))

\* the last n values of the stack, in the order they were built
TopN(n) == SubSeq(stack, Len(stack) - n + 1, Len(stack))
\* the stack once a call has consumed its n node arguments and returned r
Replace(n, r) ==
  IF r.ok THEN Append(SubSeq(stack, 1, Len(stack) - n), r.value) ELSE stack

NotRun == [ok |-> FALSE, error |-> "not run"]

(***************************************************************************)
(* The authoring session                                                   *)
(***************************************************************************)
Init ==
  /\ stack = <<>>
  /\ call = [fn |-> "none"]
  /\ ret = NotRun
  /\ pc = "author"
  /\ desc = NotRun
  /\ again = NotRun
  /\ heap = <<>>
  /\ results = <<>>
  /\ idCounter = 0
  /\ graph = NotRun
  /\ rows = NotRun
  /\ layouts = 0
  /\ previous = NotRun
  /\ issued = <<>>
  /\ tui = NotRun
  /\ watch = NotRun
  /\ app = NotRun

\* the outcome r of a constructor call that consumed the top n values; a
\* thrown Error is not caught by the forge file and ends its evaluation
Called(c, n, r) ==
  /\ pc = "author"
  /\ r.ok => CountAll(Replace(n, r)) <= MaxNodes
  /\ call' = c
  /\ ret' = r
  /\ stack' = Replace(n, r)
  /\ pc' = IF r.ok THEN "author" ELSE "failed"
  /\ UNCHANGED <<describerVars, graphVars, tuiVars, watchVars, appVars>>

\* skill(d) for a definition of the forge file
SkillOf(definitions) ==
  \E d \in definitions :
    Called([fn |-> "skill", definition |-> d], 0, skill(d))

\* fork({ when, then, else }) for a condition of the forge file
ForkOf(whens) ==
  \E w \in whens, hasThen \in BOOLEAN, hasElse \in BOOLEAN :
    LET n == (IF hasThen THEN 1 ELSE 0) + (IF hasElse THEN 1 ELSE 0)
    IN /\ n <= Len(stack)
       /\ LET args == TopN(n)
              options == [when |-> w,
                          then |-> IF hasThen THEN args[1] ELSE Undefined,
                          else |-> IF hasElse THEN args[n] ELSE Undefined]
          IN Called([fn |-> "fork", options |-> options], n, fork(options))

\* hydrate(node, config) for a config of the forge file
HydrateOf(configs) ==
  \E hasNode \in BOOLEAN, c \in configs :
    LET n == IF hasNode THEN 1 ELSE 0
    IN /\ n <= Len(stack)
       /\ LET node == IF hasNode THEN stack[Len(stack)] ELSE Undefined
          IN Called([fn |-> "hydrate", node |-> node, config |-> c], n,
                    hydrate(node, c))

CallSkill == SkillOf(SkillDefs)

CallPipe ==
  \E n \in 0..Len(stack) :
    Called([fn |-> "pipe", nodes |-> TopN(n)], n, pipe(TopN(n)))

CallParallel ==
  \E n \in 0..Len(stack) :
    Called([fn |-> "parallel", nodes |-> TopN(n)], n, parallel(TopN(n)))

CallFork == ForkOf(Whens)

CallHydrate == HydrateOf(ConfigArgs)

\* a describeAST call that returned d holds the list and the set it created
Returned(d) ==
  IF d.ok
    THEN \E skills \in {Allocate(heap, "skills", d.value.skills)} :
           \E patterns \in {Allocate(skills.heap, "patterns", d.value.patterns)} :
             /\ heap' = patterns.heap
             /\ results' = Append(results, [skills |-> skills.ref,
                                            patterns |-> patterns.ref])
    ELSE UNCHANGED <<heap, results>>

\* the build describes the composition the forge file exports: the value of
\* its whole expression
Describe ==
  /\ pc = "author"
  /\ Len(stack) = 1
  /\ \E d \in {describeAST(stack[1])} :
       /\ desc' = d
       /\ Returned(d)
  /\ pc' = "compiled"
  /\ UNCHANGED <<stack, call, ret, again, graphVars, tuiVars, watchVars, appVars>>

Next ==
  \/ Describe
  \/ CallSkill
  \/ CallPipe
  \/ CallParallel
  \/ CallFork
  \/ CallHydrate

Spec == Init /\ [][Next]_vars

(***************************************************************************)
(* The composition described twice, and a result changed by its holder     *)
(***************************************************************************)
DescribeAgain ==
  /\ pc = "compiled"
  /\ again = NotRun
  /\ \E d \in {describeAST(stack[1])} :
       /\ again' = d
       /\ Returned(d)
  /\ UNCHANGED <<stack, call, ret, pc, desc, graphVars, tuiVars, watchVars, appVars>>

\* the holder of one of the two results takes the last record off its
\* skills list (skills.pop()), or adds a value to its patterns set
ChangeResult ==
  /\ pc = "compiled"
  /\ Len(results) = 2
  /\ \E k \in 1..2, kind \in {"skills", "patterns"} :
       /\ heap' = IF kind = "skills"
                    THEN [heap EXCEPT ![results[k].skills].content =
                            SubSeq(@, 1, Len(@) - 1)]
                    ELSE [heap EXCEPT ![results[k].patterns].content =
                            @ \cup {"changed"}]
       /\ call' = [fn |-> "change", result |-> k, kind |-> kind]
  /\ pc' = "changed"
  /\ UNCHANGED <<stack, ret, desc, again, results, graphVars, tuiVars, watchVars, appVars>>

NextTwice ==
  \/ Next
  \/ DescribeAgain
  \/ ChangeResult

SpecTwice == Init /\ [][NextTwice]_vars

(***************************************************************************)
(* The composition shown as a graph                                        *)
(***************************************************************************)
\* the tree generateDemoComposition returns, built without the constructors
DemoComposition ==
  [tag |-> "PipeNode",
   nodes |-> <<
     [tag |-> "ParallelNode",
      nodes |-> <<
        [tag |-> "SkillNode",
         skill |-> [tag |-> "Skill",
                    name |-> <<"d", "a", "t", "a", "d", "o", "g", "-", "s",
                             "e", "a", "r", "c", "h">>,
                    instructions |-> <<"S", "e", "a", "r", "c", "h", " ", "D",
                                     "a", "t", "a", "d", "o", "g", " ", "l",
                                     "o", "g", "s">>,
                    source |-> [type |-> "github", owner |-> "runpod",
                                repo |-> "skills", path |-> "datadog.md"]]],
        [tag |-> "SkillNode",
         skill |-> [tag |-> "Skill",
                    name |-> <<"g", "i", "t", "h", "u", "b", "-", "s", "e",
                             "a", "r", "c", "h">>,
                    instructions |-> <<"S", "e", "a", "r", "c", "h", " ", "G",
                                     "i", "t", "H", "u", "b">>,
                    source |-> [type |-> "github", owner |-> "runpod",
                                repo |-> "skills", path |-> "github.md"]]] >>],
     [tag |-> "SkillNode",
      skill |-> [tag |-> "Skill",
                 name |-> <<"s", "u", "m", "m", "a", "r", "i", "z", "e">>,
                 instructions |-> <<"S", "u", "m", "m", "a", "r", "i", "z",
                                  "e", " ", "f", "i", "n", "d", "i", "n", "g",
                                  "s">>,
                 source |-> [type |-> "inline"]]],
     [tag |-> "ForkNode",
      condition |->
        [when |-> <<"s", "e", "v", "e", "r", "i", "t", "y", " ", "=", "=", "=",
                 " ", "\"", "c", "r", "i", "t", "i", "c", "a", "l", "\"">>,
         then |-> [tag |-> "SkillNode",
                  skill |-> [tag |-> "Skill",
                             name |-> <<"a", "l", "e", "r", "t", "-", "o",
                                      "n", "c", "a", "l", "l">>,
                             instructions |-> <<"A", "l", "e", "r", "t", " ",
                                              "o", "n", "-", "c", "a", "l",
                                              "l">>,
                             source |-> [type |-> "inline"]]],
         else |-> [tag |-> "SkillNode",
                  skill |-> [tag |-> "Skill",
                             name |-> <<"l", "o", "g", "-", "f", "i", "n",
                                      "d", "i", "n", "g">>,
                             instructions |-> <<"L", "o", "g", " ", "t", "h",
                                              "e", " ", "f", "i", "n", "d",
                                              "i", "n", "g">>,
                             source |-> [type |-> "inline"]]]]] >>]

\* the id of the node the cursor is on: none, the root's, its first child's
Selections == {Null, NodeId(1), NodeId(2)}

\* the composition handed to the graph: none (null) while nothing has been
\* built
Root == IF stack = <<>> THEN Undefined ELSE stack[1]

\* the ids of the nodes a layoutComposition call created, in creation order
IdsOf(laid) ==
  IF laid.ok THEN [i \in 1..Len(laid.value.nodes) |-> laid.value.nodes[i].id]
  ELSE <<>>

\* a call layoutComposition(Root, selectedId)
LayoutCall(selectedId) ==
  /\ layouts < MaxLayouts
  /\ \E laid \in {layoutComposition(Root, selectedId, idCounter)} :
       /\ graph' = IF laid.ok THEN Return(laid.value) ELSE Throw(laid.error)
       /\ idCounter' = laid.idCounter
       /\ issued' = issued \o IdsOf(laid)
  /\ call' = [fn |-> "layoutComposition", selectedId |-> selectedId]
  /\ previous' = IF pc = "laid" THEN [ok |-> TRUE, call |-> call, graph |-> graph]
                 ELSE NotRun
  /\ layouts' = layouts + 1
  /\ pc' = "laid"
  /\ UNCHANGED <<stack, ret, describerVars, rows, tuiVars, watchVars, appVars>>

\* the first layout: of the composition the build described, of the demo
\* composition, or of none
Layout ==
  /\ \/ pc = "compiled" /\ desc.ok
     \/ pc = "demo"
     \/ pc = "author" /\ stack = <<>>
     \/ pc = "unset"
  /\ \E selectedId \in Selections : LayoutCall(selectedId)

\* the same composition laid out once more, the cursor where it was
Relayout ==
  /\ pc = "laid"
  /\ LayoutCall(call.selectedId)

Render ==
  /\ pc = "laid"
  /\ graph.ok
  /\ rows' = Return(renderGraphToStrings(graph.value))
  /\ pc' = "rendered"
  /\ UNCHANGED <<stack, call, ret, describerVars, idCounter, graph, layouts,
                 previous, issued, tuiVars, watchVars, appVars>>

\* the caller has no composition any more: its next layoutComposition call
\* is given null
Unset ==
  /\ pc = "laid"
  /\ layouts < MaxLayouts
  /\ stack' = <<>>
  /\ call' = [fn |-> "unset"]
  /\ previous' = NotRun
  /\ pc' = "unset"
  /\ UNCHANGED <<ret, describerVars, idCounter, graph, rows, layouts, issued,
                 tuiVars, watchVars, appVars>>

\* generateDemoComposition() in a session that has built nothing: the
\* generator is reset and the hand-built demo tree is the composition shown
Demo ==
  /\ pc = "author"
  /\ stack = <<>>
  /\ idCounter' = 0
  /\ issued' = <<>>
  /\ stack' = <<DemoComposition>>
  /\ call' = [fn |-> "generateDemoComposition"]
  /\ previous' = NotRun
  /\ pc' = "demo"
  /\ UNCHANGED <<ret, describerVars, graph, rows, layouts, tuiVars, watchVars, appVars>>

\* The forge files whose compositions are shown: a short and a long skill
\* name, one condition, and a config that has itself as a property beside
\* a plain one
GraphSkillDefs ==
  {d \in SkillDefs : d.description # UndefinedStr}

GraphWhens == {w \in Whens : ~FalsyStr(w)}

GraphConfigs ==
  { [ref |-> 1, entries |-> {<<"k", Num(1)>>}],
    [ref |-> 4, entries |-> {<<"self", Obj(4)>>}] }

GraphSkill == SkillOf(GraphSkillDefs)

GraphFork == ForkOf(GraphWhens)

GraphHydrate == HydrateOf(GraphConfigs)

NextGraph ==
  \/ GraphSkill
  \/ CallPipe
  \/ CallParallel
  \/ GraphFork
  \/ GraphHydrate
  \/ Describe
  \/ Layout
  \/ Render

SpecGraph == Init /\ [][NextGraph]_vars

(***************************************************************************)
(* The composition laid out again and again                                *)
(***************************************************************************)
\* The forge files whose compositions are laid out repeatedly: one skill,
\* one condition, one config
RelayoutSkillDefs == {d \in GraphSkillDefs : Len(d.name) = 1}

RelayoutConfigs == {c \in GraphConfigs : ~Circular(c)}

RelayoutSkill == SkillOf(RelayoutSkillDefs)

RelayoutHydrate == HydrateOf(RelayoutConfigs)

NextRelayout ==
  \/ RelayoutSkill
  \/ CallPipe
  \/ CallParallel
  \/ GraphFork
  \/ RelayoutHydrate
  \/ Describe
  \/ Layout
  \/ Relayout
  \/ Unset
  \/ Demo

SpecRelayout == Init /\ [][NextRelayout]_vars

(***************************************************************************)
(* A forge file imported as a whole, laid out and drawn                    *)
(***************************************************************************)
\* what the constructors return for a list of built nodes
Built(nodes) ==
  { r.value : r \in
      { r \in {pipe(nodes), parallel(nodes)}
               \cup (IF Len(nodes) \in 1..2
                       THEN {fork([when |-> w, then |-> nodes[1],
                                   else |-> IF Len(nodes) = 2 THEN nodes[2]
                                            ELSE Undefined]) : w \in GraphWhens}
                       ELSE {})
               \cup (IF Len(nodes) = 1
                       THEN {hydrate(nodes[1], c) : c \in RelayoutConfigs}
                       ELSE {}) : r.ok } }

RECURSIVE ForgeTrees(_)
RECURSIVE ForgeLists(_)
\* the compositions of at most n nodes a forge file can export
ForgeTrees(n) ==
  IF n < 1 THEN {}
  ELSE {skill(d).value : d \in RelayoutSkillDefs}
         \cup UNION {Built(nodes) : nodes \in ForgeLists(n - 1)}
\* the lists of compositions of at most n nodes together
ForgeLists(n) ==
  {<<>>} \cup UNION { {<<t>> \o nodes : nodes \in ForgeLists(n - CountNodes(t))}
                      : t \in ForgeTrees(n) }

\* the import of a forge file: all its constructor calls return and the
\* session holds the one composition it exports
Import ==
  /\ pc = "author"
  /\ stack = <<>>
  /\ \E t \in ForgeTrees(MaxForgeNodes) : stack' = <<t>>
  /\ call' = [fn |-> "import"]
  /\ UNCHANGED <<ret, pc, describerVars, graphVars, tuiVars, watchVars, appVars>>

NextForge ==
  \/ Import
  \/ Describe
  \/ Layout
  \/ Render

SpecForge == Init /\ [][NextForge]_vars

(***************************************************************************)
(* The terminal interface: a state made by createState, then any actions   *)
(***************************************************************************)
\* the skills of the local library (the fixtures of the state tests)
MockSkills ==
  << [id |-> <<"s", "k", "-", "1">>, name |-> <<"c", "o", "d", "e", "-", "r", "e", "v", "i", "e", "w">>, description |-> <<"R", "e", "v", "i", "e", "w", " ", "c", "o", "d", "e">>,
      source |-> "local"],
     [id |-> <<"s", "k", "-", "2">>, name |-> <<"t", "e", "s", "t", "-", "w", "r", "i", "t", "e", "r">>, description |-> <<"W", "r", "i", "t", "e", " ", "t", "e", "s", "t", "s">>,
      source |-> "local"],
     [id |-> <<"s", "k", "-", "3">>, name |-> <<"d", "o", "c", "-", "g", "e", "n">>, description |-> <<"G", "e", "n", "e", "r", "a", "t", "e", " ", "d", "o", "c", "s">>,
      source |-> "local"] >>

\* the local libraries createState is called with: none, and the fixtures
LocalSkillLists == {<<>>, MockSkills}

\* the characters typed into the search box
SearchChars == {"z"}

\* the readings of the clock
Clock == 1..MaxClock

\* the messages of SET_STATUS
StatusMessages == {<<"o", "k">>}

\* the composition types of an action
CompositionTypes == {"pipe", "parallel", "fork"}

RECURSIVE CountSkills(_)
RECURSIVE CountSkillsIn(_)
\* the number of skill nodes in a composition
CountSkills(node) ==
  IF Falsy(node) THEN 0
  ELSE IF "children" \in DOMAIN node THEN CountSkillsIn(node.children)
  ELSE 1
\* the number of skill nodes in a list of compositions
CountSkillsIn(children) ==
  IF children = <<>> THEN 0
  ELSE CountSkills(Head(children)) + CountSkillsIn(Tail(children))

\* createState(localSkills)
CreateState ==
  /\ tui = NotRun
  /\ \E localSkills \in LocalSkillLists : tui' = createState(localSkills)
  /\ UNCHANGED <<stack, call, ret, pc, describerVars, graphVars, watchVars, appVars>>

\* createState has returned
Created == tui # NotRun

\* the store's step: the state becomes reducer(state, action)
Dispatch(action) ==
  /\ tui' = reducer(tui, action)
  /\ Len(tui'.workspace) <= MaxWorkspace
  /\ CountSkills(tui'.composition) <= MaxComposition
  /\ Len(tui'.searchQuery) <= MaxQuery
  /\ \A i \in 1..Len(tui'.searchQuery) : tui'.searchQuery[i] \in SearchChars
  /\ UNCHANGED <<stack, call, ret, pc, describerVars, graphVars, watchVars, appVars>>

Navigate ==
  /\ Created
  /\ \E direction \in {"up", "down"} :
       Dispatch([type |-> "NAVIGATE", direction |-> direction])

SetMode ==
  /\ Created
  /\ \E mode \in Modes : Dispatch([type |-> "SET_MODE", mode |-> mode])

Select ==
  /\ Created
  /\ Dispatch([type |-> "SELECT"])

InstallSkill ==
  /\ Created
  /\ \E type \in {"INSTALL_SKILL", "SUMMON_SKILL"} : Dispatch([type |-> type])

RemoveSkill ==
  /\ Created
  /\ \E type \in {"REMOVE_SKILL", "BANISH_SKILL"} : Dispatch([type |-> type])

AddToComposition ==
  /\ Created
  /\ \E compositionType \in CompositionTypes :
       Dispatch([type |-> "ADD_TO_COMPOSITION",
                 compositionType |-> compositionType])

ClearComposition ==
  /\ Created
  /\ Dispatch([type |-> "CLEAR_COMPOSITION"])

SearchInput ==
  /\ Created
  /\ \E char \in SearchChars : Dispatch([type |-> "SEARCH_INPUT", char |-> char])

SearchBackspace ==
  /\ Created
  /\ Dispatch([type |-> "SEARCH_BACKSPACE"])

SearchSubmit ==
  /\ Created
  /\ \E now \in Clock : Dispatch([type |-> "SEARCH_SUBMIT", now |-> now])

SetStatus ==
  /\ Created
  /\ \E message \in StatusMessages :
       Dispatch([type |-> "SET_STATUS", message |-> message])

Back ==
  /\ Created
  /\ Dispatch([type |-> "BACK"])

Quit ==
  /\ Created
  /\ Dispatch([type |-> "QUIT"])

\* a session of the library, the workspace and the search box
NextTui ==
  \/ CreateState
  \/ Navigate
  \/ SetMode
  \/ Select
  \/ InstallSkill
  \/ RemoveSkill
  \/ SearchInput
  \/ SearchBackspace
  \/ SearchSubmit
  \/ SetStatus
  \/ Back
  \/ Quit

SpecTui == Init /\ [][NextTui]_vars

\* a session of the library, the workspace and the composition
NextCompose ==
  \/ CreateState
  \/ Navigate
  \/ SetMode
  \/ InstallSkill
  \/ RemoveSkill
  \/ AddToComposition
  \/ ClearComposition
  \/ Back

SpecCompose == Init /\ [][NextCompose]_vars

\* the keys pressed in a session at the keyboard: all but the keys that
\* add to the composition
PressedKeys == Keys \ {"p", "a", "f"}

\* a key arrives: the state becomes reducer(state, keyToAction(key, state))
\* unless the key maps to no action
PressKey ==
  /\ Created
  /\ \E key \in PressedKeys, now \in Clock :
       \E action \in {keyToAction(key, tui)} :
         IF action = NullValue
           THEN UNCHANGED vars
           ELSE IF action.type = "SEARCH_SUBMIT"
             THEN Dispatch([type |-> "SEARCH_SUBMIT", now |-> now])
             ELSE Dispatch(action)

\* a session at the keyboard
NextKeys ==
  \/ CreateState
  \/ PressKey

SpecKeys == Init /\ [][NextKeys]_vars

(***************************************************************************)
(* The app store and its hotkeys                                           *)
(*                                                                         *)
(* The state of the store is the AppState without the fields of the graph, *)
(* the workspace and the preview, which no hotkey reads or writes.         *)
(***************************************************************************)
\* entries of a list of the app store
MaxListed == 2

createInitialState ==
  [viewMode |-> "grimoire",
   inputMode |-> "normal",
   commandBuffer |-> <<>>,
   searchQuery |-> <<>>,
   localSkills |-> <<>>,
   selectedSkillIndex |-> 0,
   scryResults |-> <<>>,
   selectedResultIndex |-> 0,
   statusMessage |-> <<"T", "h", "e", " ", "f", "o", "r", "g", "e", " ", "a", "w", "a", "i", "t", "s", " ", "y", "o", "u", "r", " ", "c", "o", "m", "m", "a", "n", "d", ".", ".", ".">>,
   errorMessage |-> NullValue,
   showHelp |-> FALSE]

\* the reducer of the app store
appReducer(state, action) ==
  CASE action.type = "SET_VIEW_MODE" -> [state EXCEPT !.viewMode = action.mode]
    [] action.type = "SET_INPUT_MODE" -> [state EXCEPT !.inputMode = action.mode]
    [] action.type = "SET_COMMAND_BUFFER" ->
         [state EXCEPT !.commandBuffer = action.value]
    [] action.type = "SET_SEARCH_QUERY" ->
         [state EXCEPT !.searchQuery = action.value]
    [] action.type = "SET_LOCAL_SKILLS" ->
         [state EXCEPT !.localSkills = action.skills]
    [] action.type = "SELECT_SKILL" ->
         [state EXCEPT !.selectedSkillIndex = action.index]
    [] action.type = "SET_SCRY_RESULTS" ->
         [state EXCEPT !.scryResults = action.results]
    [] action.type = "SELECT_RESULT" ->
         [state EXCEPT !.selectedResultIndex = action.index]
    [] action.type = "SET_STATUS" ->
         [state EXCEPT !.statusMessage = action.message,
                       !.errorMessage = NullValue]
    [] action.type = "TOGGLE_HELP" -> [state EXCEPT !.showHelp = ~state.showHelp]
    [] OTHER -> state

\* store.dispatch of two actions, one after the other
dispatchBoth(state, first, second) ==
  appReducer(appReducer(state, first), second)

flavorText ==
  [inscribing |-> <<"I", "n", "s", "c", "r", "i", "b", "i", "n", "g", " ", "a", "r", "c", "a", "n", "e", " ", "s", "y", "m", "b", "o", "l", "s", ".", ".", ".">>,
   channeling |-> <<"C", "h", "a", "n", "n", "e", "l", "i", "n", "g", " ", "m", "a", "g", "i", "c", "a", "l", " ", "e", "n", "e", "r", "g", "y", ".", ".", ".">>,
   conjuring |-> <<"C", "o", "n", "j", "u", "r", "i", "n", "g", " ", "p", "a", "r", "a", "l", "l", "e", "l", " ", "s", "p", "i", "r", "i", "t", "s", ".", ".", ".">>,
   summoning |-> <<"C", "a", "l", "l", "i", "n", "g", " ", "f", "o", "r", "t", "h", " ", "f", "r", "o", "m", " ", "t", "h", "e", " ", "e", "t", "h", "e", "r", ".", ".", ".">>]

\* the keys the terminal reports: escape by its name, the others by their
\* character
HotKeys ==
  {"escape", ":", "/", "?", "g", "b", "v", "j", "k",
   "s", "p", "a", "f", "h", "i", "x"}

\* String.prototype.toUpperCase on one character
toUpperCase(key) ==
  CASE key = "g" -> "G" [] key = "b" -> "B" [] key = "v" -> "V"
    [] key = "j" -> "J" [] key = "k" -> "K" [] key = "s" -> "S"
    [] key = "p" -> "P" [] key = "a" -> "A" [] key = "f" -> "F"
    [] key = "h" -> "H" [] key = "i" -> "I" [] key = "x" -> "X"
    [] OTHER -> key

\* handleHotkey, keyStr === 'j': move down in the current list
hotkeyDown(state) ==
  CASE state.viewMode = "spellbook" ->
         appReducer(state,
           [type |-> "SELECT_SKILL",
            index |-> Min2(state.selectedSkillIndex + 1,
                           Len(state.localSkills) - 1)])
    [] state.viewMode = "bazaar" ->
         appReducer(state,
           [type |-> "SELECT_RESULT",
            index |-> Min2(state.selectedResultIndex + 1,
                           Len(state.scryResults) - 1)])
    [] OTHER -> state

\* handleHotkey, keyStr === 'k': move up in the current list
hotkeyUp(state) ==
  CASE state.viewMode = "spellbook" ->
         appReducer(state,
           [type |-> "SELECT_SKILL",
            index |-> Max2(state.selectedSkillIndex - 1, 0)])
    [] state.viewMode = "bazaar" ->
         appReducer(state,
           [type |-> "SELECT_RESULT",
            index |-> Max2(state.selectedResultIndex - 1, 0)])
    [] OTHER -> state

\* handleHotkey, the composition operations of normal mode
hotkeyCompose(state, keyStr) ==
  CASE keyStr = "s" ->
         dispatchBoth(state,
           [type |-> "SET_INPUT_MODE", mode |-> "insert"],
           [type |-> "SET_STATUS", message |-> flavorText.inscribing])
    [] keyStr = "p" ->
         appReducer(state, [type |-> "SET_STATUS", message |-> flavorText.channeling])
    [] keyStr = "a" ->
         appReducer(state, [type |-> "SET_STATUS", message |-> flavorText.conjuring])
    [] keyStr = "f" ->
         dispatchBoth(state,
           [type |-> "SET_INPUT_MODE", mode |-> "command"],
           [type |-> "SET_COMMAND_BUFFER", value |-> <<"d", "i", "v", "i", "n", "e", " ">>])
    [] keyStr = "h" ->
         dispatchBoth(state,
           [type |-> "SET_INPUT_MODE", mode |-> "command"],
           [type |-> "SET_COMMAND_BUFFER", value |-> <<"i", "m", "b", "u", "e", " ">>])
    [] keyStr = "i" ->
         appReducer(state, [type |-> "SET_STATUS", message |-> flavorText.summoning])
    [] OTHER -> state

\* handleHotkey: the state of the store after the key
handleHotkey(state, key, shift) ==
  LET keyStr == IF shift /\ key # "escape" THEN toUpperCase(key) ELSE key
  IN  IF key = "escape"
        THEN IF state.inputMode # "normal"
               THEN dispatchBoth(state,
                      [type |-> "SET_INPUT_MODE", mode |-> "normal"],
                      [type |-> "SET_COMMAND_BUFFER", value |-> <<>>])
               ELSE IF state.viewMode # "grimoire"
                 THEN appReducer(state, [type |-> "SET_VIEW_MODE", mode |-> "grimoire"])
                 ELSE state
      ELSE IF keyStr = ":"
        THEN dispatchBoth(state,
               [type |-> "SET_INPUT_MODE", mode |-> "command"],
               [type |-> "SET_COMMAND_BUFFER", value |-> <<>>])
      ELSE IF keyStr = "/"
        THEN dispatchBoth(state,
               [type |-> "SET_INPUT_MODE", mode |-> "search"],
               [type |-> "SET_SEARCH_QUERY", value |-> <<>>])
      ELSE IF keyStr = "?"
        THEN appReducer(state, [type |-> "TOGGLE_HELP"])
      ELSE IF keyStr = "g" /\ state.inputMode = "normal"
        THEN appReducer(state, [type |-> "SET_VIEW_MODE", mode |-> "spellbook"])
      ELSE IF keyStr = "b" /\ state.inputMode = "normal"
        THEN appReducer(state, [type |-> "SET_VIEW_MODE", mode |-> "bazaar"])
      ELSE IF keyStr = "v" /\ state.inputMode = "normal"
        THEN appReducer(state, [type |-> "SET_VIEW_MODE", mode |-> "preview"])
      ELSE IF keyStr = "j" THEN hotkeyDown(state)
      ELSE IF keyStr = "k" THEN hotkeyUp(state)
      ELSE IF state.inputMode = "normal" THEN hotkeyCompose(state, keyStr)
      ELSE state

\* the skills of a library directory and the results of a search
Listed(n) == [i \in 1..n |-> [name |-> MockSkills[i].name]]

\* new Store()
NewStore ==
  /\ app = NotRun
  /\ app' = createInitialState
  /\ UNCHANGED <<stack, call, ret, pc, describerVars, graphVars, tuiVars, watchVars>>

\* the library is loaded into a store that shows none yet
SetLocalSkills ==
  /\ app # NotRun
  /\ app.localSkills = <<>>
  /\ app.selectedSkillIndex = 0
  /\ \E n \in 1..MaxListed :
       app' = appReducer(app, [type |-> "SET_LOCAL_SKILLS", skills |-> Listed(n)])
  /\ UNCHANGED <<stack, call, ret, pc, describerVars, graphVars, tuiVars, watchVars>>

\* the results of a search are put into a store that shows none yet
SetScryResults ==
  /\ app # NotRun
  /\ app.scryResults = <<>>
  /\ app.selectedResultIndex = 0
  /\ \E n \in 1..MaxListed :
       app' = appReducer(app, [type |-> "SET_SCRY_RESULTS", results |-> Listed(n)])
  /\ UNCHANGED <<stack, call, ret, pc, describerVars, graphVars, tuiVars, watchVars>>

\* a key is pressed
Hotkey ==
  /\ app # NotRun
  /\ \E key \in HotKeys, shift \in BOOLEAN :
       app' = handleHotkey(app, key, shift)
  /\ UNCHANGED <<stack, call, ret, pc, describerVars, graphVars, tuiVars, watchVars>>

NextApp ==
  \/ NewStore
  \/ SetLocalSkills
  \/ SetScryResults
  \/ Hotkey

SpecApp == Init /\ [][NextApp]_vars

\* watchCommand: the initial build succeeds or fails, then the file is
\* watched
WatchCommand ==
  /\ watch = NotRun
  /\ \E outcome \in {"built", "failed"} : watch' = watchCommand(outcome)
  /\ UNCHANGED <<stack, call, ret, pc, describerVars, graphVars, tuiVars, appVars>>

Watching == watch # NotRun /\ ~watch.closed

\* fs.watch reports an event on the forge file
FileEvent ==
  /\ Watching
  /\ Len(SelectSeq(watch.log, LAMBDA entry : entry.event = "change")) < MaxEvents
  /\ watch.now + DebounceTicks <= MaxTime
  /\ \E eventType \in {"change", "rename"} :
       watch' =
         [watchListener(watch, eventType) EXCEPT
            !.log = IF eventType = "change"
                      THEN Append(@, [event |-> "change", at |-> watch.now,
                                      building |-> watch.building])
                      ELSE @]
  /\ UNCHANGED <<stack, call, ret, pc, describerVars, graphVars, tuiVars, appVars>>

\* time passes
Tick ==
  /\ Watching
  /\ watch.now < MaxTime
  /\ watch' = [watch EXCEPT !.now = @ + 1]
  /\ UNCHANGED <<stack, call, ret, pc, describerVars, graphVars, tuiVars, appVars>>

\* the debounce timer expires, not before its deadline
TimerFires ==
  /\ Watching
  /\ TimerPending(watch)
  /\ watch.now >= watch.debounceTimer.deadline
  /\ watch' = rebuildStarts(watch)
  /\ UNCHANGED <<stack, call, ret, pc, describerVars, graphVars, tuiVars, appVars>>

\* the buildCommand of a rebuild returns or throws
BuildCompletes ==
  /\ Watching
  /\ watch.running > 0
  /\ watch' = rebuildEnds(watch)
  /\ UNCHANGED <<stack, call, ret, pc, describerVars, graphVars, tuiVars, appVars>>

\* SIGINT: watcher.close() and process.exit(0)
Sigint ==
  /\ Watching
  /\ watch' = [watch EXCEPT !.closed = TRUE]
  /\ UNCHANGED <<stack, call, ret, pc, describerVars, graphVars, tuiVars, appVars>>

NextWatch ==
  \/ WatchCommand
  \/ FileEvent
  \/ Tick
  \/ TimerFires
  \/ BuildCompletes
  \/ Sigint

SpecWatch == Init /\ [][NextWatch]_vars

\* the event loop runs: time passes, a timer that is due expires, a build
\* that runs comes to its end
SpecWatchLive ==
  /\ SpecWatch
  /\ WF_vars(Tick)
  /\ WF_vars(TimerFires)
  /\ WF_vars(BuildCompletes)

(***************************************************************************)
(* Properties of the constructors                                          *)
(***************************************************************************)
PipeMessage == "pipe() requires at least one node"
ParallelMessage == "parallel() requires at least one node"
WhenMessage == "fork() requires a \"when\" condition"
ThenMessage == "fork() requires a \"then\" branch"

\* C1: pipe and parallel, called with at least one node, return a node whose
\* child list has the length of the argument list and holds the same
\* children at the same positions.
C1_ChildrenKeptInOrder ==
  (call.fn \in {"pipe", "parallel"} /\ Len(call.nodes) > 0) =>
    /\ ret.ok
    /\ ret.value.tag = (IF call.fn = "pipe" THEN "PipeNode" ELSE "ParallelNode")
    /\ Len(ret.value.nodes) = Len(call.nodes)
    /\ \A i \in 1..Len(call.nodes) : ret.value.nodes[i] = call.nodes[i]

\* pipe was called with three children, the first and the last different
C1_Witness ==
  /\ call.fn = "pipe"
  /\ Len(call.nodes) = 3
  /\ call.nodes[1] # call.nodes[3]
  /\ ret.ok

\* C2: pipe and parallel, called with no node, throw the error that names
\* them, return no node and leave nothing built.
C2_EmptyChildrenThrows ==
  (call.fn \in {"pipe", "parallel"} /\ Len(call.nodes) = 0) =>
    /\ ~ret.ok
    /\ ret.error = (IF call.fn = "pipe" THEN PipeMessage ELSE ParallelMessage)
    /\ pc = "failed"

\* parallel() was called after some nodes had been built
C2_Witness ==
  /\ call.fn = "parallel"
  /\ call.nodes = <<>>
  /\ stack # <<>>
  /\ ~ret.ok

\* C3: fork throws the "when" error whenever when is empty or absent, even
\* with then missing too; it throws the "then" error when when is given and
\* then is absent; otherwise it returns a ForkNode with exactly the when,
\* then and else it was given.
C3_ForkValidation ==
  call.fn = "fork" =>
    LET o == call.options
    IN IF o.when \in {<<>>, UndefinedStr}
         THEN ~ret.ok /\ ret.error = WhenMessage
         ELSE IF o.then = Undefined
           THEN ~ret.ok /\ ret.error = ThenMessage
           ELSE /\ ret.ok
                /\ ret.value.tag = "ForkNode"
                /\ ret.value.condition.when = o.when
                /\ ret.value.condition.then = o.then
                /\ ret.value.condition.else = o.else

\* fork was called with an empty when and no then
C3_Witness ==
  /\ call.fn = "fork"
  /\ call.options.when = <<>>
  /\ call.options.then = Undefined
  /\ ~ret.ok

\* C4: hydrate throws when no node is given and when the config is missing
\* or has no keys; otherwise it returns a HydrateNode that wraps exactly the
\* node and the config object it was given.
C4_HydrateValidation ==
  call.fn = "hydrate" =>
    IF \/ call.node = Undefined
       \/ call.config = Undefined
       \/ call.config.entries = {}
      THEN ~ret.ok
      ELSE /\ ret.ok
           /\ ret.value.tag = "HydrateNode"
           /\ ret.value.node = call.node
           /\ ret.value.config = call.config

\* hydrate was called on a node with the config {}
C4_Witness ==
  /\ call.fn = "hydrate"
  /\ call.node # Undefined
  /\ call.config # Undefined
  /\ call.config.entries = {}
  /\ ~ret.ok

\* C5: skill validates the leaf invariants: a definition whose name or
\* trimmed instructions are empty is rejected, and every SkillNode returned
\* has a non-empty name and non-empty instructions.
C5_SkillValidates ==
  call.fn = "skill" =>
    IF call.definition.name = <<>> \/ Trim(call.definition.instructions) = <<>>
      THEN ~ret.ok
      ELSE /\ ret.ok
           /\ ret.value.skill.name # <<>>
           /\ ret.value.skill.instructions # <<>>

(***************************************************************************)
(* Totality of the describer, the layout and the drawing                   *)
(***************************************************************************)
\* C6: for every tree the constructors build (any nesting of skill, pipe,
\* parallel, fork with or without else, hydrate), describeAST,
\* layoutComposition and renderGraphToStrings each return a result: none of
\* them throws.
C6_DescribeLayoutRenderReturn ==
  /\ pc = "compiled" => desc.ok
  /\ pc = "laid" => graph.ok
  /\ pc = "rendered" => rows.ok

(***************************************************************************)
(* Properties of the describer                                             *)
(***************************************************************************)
\* the composition that was described
Composition == stack[1]
DescribedOk == pc = "compiled" /\ desc.ok

\* the direct children of a node, in the order of the walk: list order,
\* then before else
Children(node) ==
  CASE node.tag \in {"PipeNode", "ParallelNode"} -> node.nodes
    [] node.tag = "ForkNode" ->
         IF node.condition.else = Undefined
           THEN <<node.condition.then>>
           ELSE <<node.condition.then, node.condition.else>>
    [] node.tag = "HydrateNode" -> <<node.node>>
    [] OTHER -> <<>>

RECURSIVE Flatten(_)
Flatten(lists) ==
  IF lists = <<>> THEN <<>> ELSE Head(lists) \o Flatten(Tail(lists))

RECURSIVE Subtrees(_)
\* a node and all the nodes below it, in preorder
Subtrees(node) ==
  <<node>> \o Flatten([i \in 1..Len(Children(node)) |-> Subtrees(Children(node)[i])])

Range(f) == {f[i] : i \in DOMAIN f}
Tags(node) == {n.tag : n \in Range(Subtrees(node))}

PatternOfTag ==
  [PipeNode |-> "sequential", ParallelNode |-> "parallel",
   ForkNode |-> "conditional", HydrateNode |-> "hydrated"]

\* C7: the patterns set holds sequential / parallel / conditional / hydrated
\* exactly when the tree holds a Pipe / Parallel / Fork / Hydrate node; a
\* lone leaf gives the empty set.
C7_PatternsMatchNodeTypes ==
  DescribedOk =>
    /\ \A t \in DOMAIN PatternOfTag :
         (PatternOfTag[t] \in desc.value.patterns) <=> (t \in Tags(Composition))
    /\ desc.value.patterns \subseteq Range(PatternOfTag)
    /\ Composition.tag = "SkillNode" => desc.value.patterns = {}

\* a tree with a hydrate, a fork and a pipe node and no parallel node
C7_Witness ==
  /\ DescribedOk
  /\ Tags(Composition) = {"SkillNode", "HydrateNode", "ForkNode", "PipeNode"}
  /\ Cardinality(desc.value.patterns) = 3

SetMax(S) == CHOOSE m \in S : \A x \in S : x <= m

RECURSIVE DepthByRules(_)
\* the depth rules, with Children as above
DepthByRules(node) ==
  LET below == {DepthByRules(Children(node)[i]) : i \in 1..Len(Children(node))}
  IN CASE node.tag = "SkillNode" -> 1
       [] node.tag = "HydrateNode" -> SetMax(below)
       [] OTHER -> 1 + SetMax(below \cup {0})

\* C8: maxDepth follows the depth rules: a leaf is 1, a pipe or parallel is
\* 1 + the largest child depth, a fork is 1 + the larger of then and else
\* (else counting 0 when absent), a hydrate has the depth of its child; so
\* maxDepth >= 1.
C8_MaxDepthFollowsRules ==
  DescribedOk =>
    /\ desc.value.maxDepth = DepthByRules(Composition)
    /\ desc.value.maxDepth >= 1

\* a fork without else under two hydrate wrappers: depth 2 in four nodes
C8_Witness ==
  /\ DescribedOk
  /\ Composition.tag = "HydrateNode"
  /\ Composition.node.tag = "HydrateNode"
  /\ Composition.node.node.tag = "ForkNode"
  /\ Composition.node.node.condition.else = Undefined
  /\ desc.value.maxDepth = 2

RECURSIVE FirstByName(_, _)
\* the leaf skills of a list of nodes, keeping the first of every name
FirstByName(nodes, seen) ==
  IF nodes = <<>> THEN <<>>
  ELSE LET n == Head(nodes)
       IN IF n.tag = "SkillNode" /\ n.skill.name \notin seen
            THEN <<n.skill>> \o FirstByName(Tail(nodes), seen \cup {n.skill.name})
            ELSE FirstByName(Tail(nodes), seen)

\* C9: the skills list holds one record per distinct leaf name, in the
\* order in which the walk first meets the names, each with the description
\* and instructions of the first leaf of that name.
C9_OneRecordPerName ==
  DescribedOk =>
    LET first == FirstByName(Subtrees(Composition), {})
        skills == desc.value.skills
    IN /\ Len(skills) = Len(first)
       /\ \A i \in 1..Len(first) :
            /\ skills[i].name = first[i].name
            /\ skills[i].description = first[i].description
            /\ skills[i].instructions = first[i].instructions

\* three leaves: "a", then another name, then an "a" with other instructions
C9_Witness ==
  /\ DescribedOk
  /\ Composition.tag \in {"PipeNode", "ParallelNode"}
  /\ Len(Composition.nodes) = 3
  /\ \A i \in 1..3 : Composition.nodes[i].tag = "SkillNode"
  /\ Composition.nodes[1].skill.name = <<"a">>
  /\ Composition.nodes[2].skill.name # <<"a">>
  /\ Composition.nodes[3].skill.name = <<"a">>
  /\ Composition.nodes[3].skill.instructions # Composition.nodes[1].skill.instructions
  /\ Len(desc.value.skills) = 2

RECURSIVE LeafVisits(_, _)
\* the leaves of a tree in the order of the walk, each with the configs of
\* the hydrate wrappers around it, outermost first
LeafVisits(node, active) ==
  CASE node.tag = "SkillNode" -> <<[name |-> node.skill.name, active |-> active]>>
    [] node.tag = "HydrateNode" -> LeafVisits(node.node, Append(active, node.config))
    [] OTHER -> Flatten([i \in 1..Len(Children(node)) |->
                           LeafVisits(Children(node)[i], active)])

\* C10: in every skill record the hydration configs are deduplicated by
\* object identity: no config object is in the list twice, however often it
\* is attached, and every config object attached around a leaf of that name
\* is in the list, also when another object there has equal contents.
C10_HydrationsDeduplicatedByIdentity ==
  DescribedOk =>
    \A r \in Range(desc.value.skills) :
      /\ \A i, j \in 1..Len(r.hydrations) :
           r.hydrations[i].ref = r.hydrations[j].ref => i = j
      /\ \A v \in Range(LeafVisits(Composition, <<>>)) :
           v.name = r.name =>
             \A c \in Range(v.active) :
               \E i \in 1..Len(r.hydrations) : r.hydrations[i].ref = c.ref

\* every skill name is the name of one leaf only
NamesUnique ==
  \A i, j \in 1..Len(LeafVisits(Composition, <<>>)) :
    LeafVisits(Composition, <<>>)[i].name = LeafVisits(Composition, <<>>)[j].name
      => i = j

\* C11: in a tree where every skill name occurs in a single leaf, the
\* hydrations recorded for a skill are exactly the configs of the hydrate
\* wrappers around its leaf, outermost first: a config is recorded for the
\* leaves inside the wrapped subtree and for no leaf outside it, and a leaf
\* under no wrapper has an empty list.
C11_HydrationsAreAncestorConfigs ==
  (DescribedOk /\ NamesUnique) =>
    \A v \in Range(LeafVisits(Composition, <<>>)) :
      \E r \in Range(desc.value.skills) :
        /\ r.name = v.name
        /\ r.hydrations = v.active

\* a leaf under two wrappers with different configs: the outer config is
\* recorded first
C11_Witness ==
  /\ DescribedOk
  /\ Composition.tag = "HydrateNode"
  /\ Composition.node.tag = "HydrateNode"
  /\ Composition.node.node.tag = "SkillNode"
  /\ Composition.config.ref # Composition.node.config.ref
  /\ desc.value.skills[1].hydrations = <<Composition.config, Composition.node.config>>

(***************************************************************************)
(* Properties of the outline                                               *)
(***************************************************************************)
\* the outline of the composition
Outline == desc.value.tree

\* the elements of a set of numbers, ascending
RECURSIVE Ascending(_)
Ascending(S) ==
  IF S = {} THEN <<>>
  ELSE LET least == CHOOSE m \in S : \A x \in S : m <= x
       IN <<least>> \o Ascending(S \ {least})

\* the lines of the outline that open an entry of the root's list: those
\* that carry a list marker one level in
EntryStarts ==
  Ascending({k \in 2..Len(Outline) :
               Outline[k].indent = 2 /\ Outline[k].marker # ""})

\* entry i of the root's list: from its opening line to the line before the
\* next entry, or to the end
Entry(i) ==
  SubSeq(Outline, EntryStarts[i],
         IF i < Len(EntryStarts) THEN EntryStarts[i + 1] - 1 ELSE Len(Outline))

\* the outline of a child of the root, on its own
SubOutline(child) == describeNode(child, 1, <<>>, {}, <<>>).text

\* C12: the outline of a pipe is the SEQUENCE header line followed by one
\* entry per child, numbered 1..n in child list order: entry i is the
\* outline of child i, so child i comes before child i + 1.
C12_SequenceEntriesNumberedInOrder ==
  (DescribedOk /\ Composition.tag = "PipeNode") =>
    /\ Outline[1] = [indent |-> 0, marker |-> "",
                     kind |-> "SEQUENCE (execute in order):"]
    /\ Len(EntryStarts) = Len(Composition.nodes)
    /\ Len(Outline) > 1 => EntryStarts[1] = 2
    /\ \A i \in 1..Len(Composition.nodes) :
         /\ Entry(i)[1].marker = ToString(i) \o "."
         /\ [Entry(i) EXCEPT ![1].marker = ""] = SubOutline(Composition.nodes[i])

\* a pipe of a pipe and a leaf: two entries, the first one a list itself
C12_Witness ==
  /\ DescribedOk
  /\ Composition.tag = "PipeNode"
  /\ Len(Composition.nodes) = 2
  /\ Composition.nodes[1].tag = "PipeNode"
  /\ Composition.nodes[2].tag = "SkillNode"
  /\ Composition.nodes[1].nodes[1].skill.name # Composition.nodes[2].skill.name
  /\ Len(EntryStarts) = 2

\* the outline from line k on
From(k) == SubSeq(Outline, k, Len(Outline))

\* C13: the outline of a fork holds the condition string as it is, always
\* a THEN block with the outline of the then child, and an ELSE block with
\* the outline of the else child exactly when the fork has an else child.
C13_BranchBlocks ==
  (DescribedOk /\ Composition.tag = "ForkNode") =>
    LET condition == Composition.condition
        thenLines == SubOutline(condition.then)
        afterThen == 3 + Len(thenLines)
    IN /\ Outline[1] = [indent |-> 0, marker |-> "",
                        kind |-> "BRANCH on condition:", when |-> condition.when]
       /\ Outline[2] = [indent |-> 2, marker |-> "", kind |-> "THEN:"]
       /\ SubSeq(Outline, 3, afterThen - 1) = thenLines
       /\ IF condition.else # Undefined
            THEN /\ Len(Outline) >= afterThen
                 /\ Outline[afterThen] = [indent |-> 2, marker |-> "", kind |-> "ELSE:"]
                 /\ From(afterThen + 1) = SubOutline(condition.else)
            ELSE Len(Outline) = afterThen - 1
       /\ (\E k \in 1..Len(Outline) :
             Outline[k].kind = "ELSE:" /\ Outline[k].indent = 2)
            <=> condition.else # Undefined

\* a fork with an else child whose then child is a fork without one
C13_Witness ==
  /\ DescribedOk
  /\ Composition.tag = "ForkNode"
  /\ Composition.condition.else # Undefined
  /\ Composition.condition.then.tag = "ForkNode"
  /\ Composition.condition.then.condition.else = Undefined
  /\ Len(Outline) = 9

(***************************************************************************)
(* Properties of repeated calls                                            *)
(***************************************************************************)
\* the list or set a result holds, as it is now
Held(k, kind) ==
  IF kind = "skills" THEN heap[results[k].skills].content
  ELSE heap[results[k].patterns].content

\* the two results are equal, their lists and sets are four objects, and a
\* change of one result's list or set has left those of the other as
\* they were returned
ResultsEqualAndSeparate ==
  /\ again # NotRun => again = desc
  /\ Len(results) = 2 =>
       Cardinality({results[1].skills, results[1].patterns,
                    results[2].skills, results[2].patterns}) = 4
  /\ pc = "changed" =>
       /\ Held(3 - call.result, "skills") = desc.value.skills
       /\ Held(3 - call.result, "patterns") = desc.value.patterns

Anonymous(node) ==
  [type |-> node.type, label |-> node.label, x |-> node.x, y |-> node.y,
   width |-> node.width, height |-> node.height, color |-> node.color,
   selected |-> node.selected, lines |-> node.lines]

\* two graphs are the same apart from the ids of their nodes
SameApartFromIds(g, h) ==
  /\ Len(g.nodes) = Len(h.nodes)
  /\ \A i \in 1..Len(g.nodes) : Anonymous(g.nodes[i]) = Anonymous(h.nodes[i])
  /\ Len(g.connections) = Len(h.connections)
  /\ \A i \in 1..Len(g.connections) :
       g.connections[i].points = h.connections[i].points
  /\ g.width = h.width
  /\ g.height = h.height

\* the last two layoutComposition calls returned and had the same selectedId
LaidOutTwice ==
  /\ pc = "laid"
  /\ previous.ok
  /\ previous.graph.ok
  /\ graph.ok
  /\ previous.call.selectedId = call.selectedId

\* C15: two layoutComposition calls on the same tree with the same
\* selectedId return graphs that are the same apart from the node ids: the
\* same nodes in the same order with the same positions, sizes, labels,
\* colors, selected flags and box lines, and the same connector points.
C15_LayoutTwiceSameApartFromIds ==
  LaidOutTwice => SameApartFromIds(previous.graph.value, graph.value)

(***************************************************************************)
(* Properties of the node ids                                              *)
(***************************************************************************)
\* the number n of the id `node-${n}`
IdNumber(id) == CHOOSE n \in 1..idCounter : NodeId(n) = id

\* the nodes of the graph are the nodes of the tree in preorder: a parent
\* before its children, the children in list order
NodesInPreorder ==
  /\ Len(graph.value.nodes) = Len(Subtrees(Root))
  /\ \A i \in 1..Len(graph.value.nodes) :
       /\ graph.value.nodes[i].type = getNodeType(Subtrees(Root)[i])
       /\ graph.value.nodes[i].label = getNodeLabel(Subtrees(Root)[i])

\* C16: over any run of layoutComposition calls since the generator was
\* last reset, every positioned node got an id never issued before, and the
\* ids grow in creation order: a parent before its children, children in
\* list order, a later call after an earlier one.
C16_IdsFreshAndIncreasing ==
  /\ \A i, j \in 1..Len(issued) :
       i < j => IdNumber(issued[i]) < IdNumber(issued[j])
  /\ (pc = "laid" /\ graph.ok /\ Root # Undefined) =>
       /\ NodesInPreorder
       /\ \A i \in 1..Len(graph.value.nodes) :
            graph.value.nodes[i].id
              = issued[Len(issued) - Len(graph.value.nodes) + i]

C16_Witness ==
  /\ pc = "laid"
  /\ previous.ok
  /\ previous.graph.ok
  /\ graph.ok
  /\ Root # Undefined
  /\ Root.tag = "PipeNode"
  /\ Len(graph.value.nodes) >= 3
  /\ Len(issued) = 2 * Len(graph.value.nodes)

(***************************************************************************)
(* Properties of the positions                                             *)
(***************************************************************************)
\* the last layoutComposition call was given a tree
LaidOutTree == pc \in {"laid", "rendered"} /\ Root # Undefined

\* C17: the layout of a tree that is a single leaf is exactly one
\* positioned node, at (0,0), and no connector.
C17_SingleLeafLayout ==
  (LaidOutTree /\ Root.tag = "SkillNode") =>
    /\ graph.ok
    /\ Len(graph.value.nodes) = 1
    /\ graph.value.nodes[1].x = 0
    /\ graph.value.nodes[1].y = 0
    /\ graph.value.connections = <<>>

C17_Witness ==
  /\ pc = "laid"
  /\ Root # Undefined
  /\ Root.tag = "SkillNode"
  /\ graph.ok
  /\ Len(graph.value.nodes) = 1

\* the graph with nothing in it
EmptyGraph == [nodes |-> <<>>, connections |-> <<>>, width |-> 0, height |-> 0]

\* C18: a layoutComposition call with a null root returns the empty graph
\* (no nodes, no connectors, width 0, height 0), raises nothing and leaves
\* the node-id generator where it was.
C18_NullRootEmptyGraph ==
  [][(layouts' = layouts + 1 /\ stack' = <<>>) =>
       /\ graph' = Return(EmptyGraph)
       /\ idCounter' = idCounter
       /\ issued' = issued]_vars

C18_Witness ==
  /\ pc = "laid"
  /\ stack = <<>>
  /\ graph = Return(EmptyGraph)
  /\ idCounter > 0

RECURSIVE ChildIndex(_, _, _)
\* where child k of the node at index p stands in the preorder of the tree
ChildIndex(children, p, k) ==
  IF k = 1 THEN p + 1
  ELSE ChildIndex(children, p, k - 1) + Len(Subtrees(children[k - 1]))

\* the positioned node of child k of the tree node at preorder index p
ChildNode(p, k) ==
  graph.value.nodes[ChildIndex(Children(Subtrees(Root)[p]), p, k)]

\* the preorder indices of the tree's PipeNodes
PipeIndices ==
  {p \in 1..Len(Subtrees(Root)) : Subtrees(Root)[p].tag = "PipeNode"}

\* C19: in the layout of a Sequence the children stand below one another in
\* list order and do not overlap: for consecutive children A then B,
\* B.y > A.y + A.height; and every child has the x of the Sequence node.
C19_SequenceChildrenStacked ==
  (LaidOutTree /\ graph.ok) =>
    \A p \in PipeIndices :
      LET n == Len(Subtrees(Root)[p].nodes) IN
        /\ \A k \in 1..n : ChildNode(p, k).x = graph.value.nodes[p].x
        /\ \A k \in 1..(n - 1) :
             ChildNode(p, k + 1).y > ChildNode(p, k).y + ChildNode(p, k).height

C19_Witness ==
  /\ pc = "laid"
  /\ Root # Undefined
  /\ graph.ok
  /\ \E p \in PipeIndices :
       /\ Len(Subtrees(Root)[p].nodes) = 2
       /\ Subtrees(Root)[p].nodes[1].tag # "SkillNode"
       /\ ChildNode(p, 2).x = graph.value.nodes[p].x
       /\ ChildNode(p, 2).y > ChildNode(p, 1).y + ChildNode(p, 1).height

(***************************************************************************)
(* Properties of the connectors                                            *)
(***************************************************************************)
\* the connections of the graph that lead from one positioned node to another
ConnectorsBetween(from, to) ==
  {i \in 1..Len(graph.value.connections) :
     /\ graph.value.connections[i].fromId = from.id
     /\ graph.value.connections[i].toId = to.id}

\* all points of the connection have one x
PurelyVertical(connection) ==
  \A i, j \in 1..Len(connection.points) :
    connection.points[i].x = connection.points[j].x

\* the tree laid out is a PipeNode of two children
SequenceOfTwo ==
  /\ LaidOutTree
  /\ graph.ok
  /\ Root.tag = "PipeNode"
  /\ Len(Root.nodes) = 2

\* C20: the layout of sequence(A, B) has exactly one connector from A to B,
\* and all points of that connector share one x when A and B have the same
\* width.
C20_OneConnectorFromAToB ==
  SequenceOfTwo =>
    /\ Cardinality(ConnectorsBetween(ChildNode(1, 1), ChildNode(1, 2))) = 1
    /\ ChildNode(1, 1).width = ChildNode(1, 2).width =>
         \A i \in ConnectorsBetween(ChildNode(1, 1), ChildNode(1, 2)) :
           PurelyVertical(graph.value.connections[i])

(***************************************************************************)
(* Properties of the layout of whole forge files                           *)
(***************************************************************************)
\* the positioned nodes of child k of the tree node at preorder index p
\* and of everything below that child
SubtreeNodes(p, k) ==
  LET children == Children(Subtrees(Root)[p])
      first == ChildIndex(children, p, k)
  IN {graph.value.nodes[i] : i \in first..(first + Len(Subtrees(children[k])) - 1)}

\* the preorder indices of the tree's ParallelNodes
ParallelIndices ==
  {p \in 1..Len(Subtrees(Root)) : Subtrees(Root)[p].tag = "ParallelNode"}

\* C21: in the layout of a Concurrent node the children stand in one row in
\* list order: all have the same y, and for consecutive children A then B,
\* B.x > A.x + A.width, and B is also to the right of every box below A
\* when A is a subtree wider than one box.
C21_ConcurrentChildrenInOneRow ==
  (LaidOutTree /\ graph.ok) =>
    \A p \in ParallelIndices :
      LET n == Len(Subtrees(Root)[p].nodes) IN
        /\ \A k \in 1..n : ChildNode(p, k).y = ChildNode(p, 1).y
        /\ \A k \in 1..(n - 1) :
             /\ ChildNode(p, k + 1).x > ChildNode(p, k).x + ChildNode(p, k).width
             /\ \A below \in SubtreeNodes(p, k) :
                  ChildNode(p, k + 1).x > below.x + below.width

C21_Witness ==
  /\ pc = "laid"
  /\ Root # Undefined
  /\ graph.ok
  /\ \E p \in ParallelIndices :
       /\ Len(Subtrees(Root)[p].nodes) = 2
       /\ \E below \in SubtreeNodes(p, 1) : below.x > ChildNode(p, 1).x
       /\ \A below \in SubtreeNodes(p, 1) :
            ChildNode(p, 2).x > below.x + below.width

\* the preorder indices of the tree's HydrateNodes
HydrateIndices ==
  {p \in 1..Len(Subtrees(Root)) : Subtrees(Root)[p].tag = "HydrateNode"}

\* the graph of the node a root HydrateNode wraps, laid out on its own
InnerGraph == layoutComposition(Root.node, Null, 0).value

RECURSIVE SumOf(_)
SumOf(numbers) ==
  IF numbers = <<>> THEN 0 ELSE Head(numbers) + SumOf(Tail(numbers))

RECURSIVE SizeByRules(_)
\* the size rules, with box W x H = NODE_WIDTH x NODE_HEIGHT and spacings
\* Hs = H_SPACING, Vs = V_SPACING
SizeByRules(node) ==
  LET sizes == [i \in 1..Len(Children(node)) |-> SizeByRules(Children(node)[i])]
      n == Len(sizes)
      widths == [i \in 1..n |-> sizes[i].width]
      heights == [i \in 1..n |-> sizes[i].height]
  IN CASE node.tag = "SkillNode" ->
            [width |-> NODE_WIDTH, height |-> NODE_HEIGHT]
       [] node.tag = "PipeNode" ->
            [width |-> SetMax({NODE_WIDTH} \cup Range(widths)),
             height |-> NODE_HEIGHT
                          + SumOf([i \in 1..n |-> heights[i] + V_SPACING])]
       [] node.tag = "ParallelNode" ->
            [width |-> SetMax({NODE_WIDTH, SumOf(widths) + H_SPACING * (n - 1)}),
             height |-> NODE_HEIGHT + V_SPACING + SetMax(Range(heights))]
       [] node.tag = "ForkNode" ->
            [width |-> IF n = 2 THEN widths[1] + H_SPACING + widths[2]
                       ELSE widths[1],
             height |-> NODE_HEIGHT + V_SPACING + SetMax(Range(heights) \cup {0})]

\* the tree laid out has no HydrateNode
NoHydrate == HydrateIndices = {}

\* C23: for every tree without Hydrated nodes the graph's width and height
\* are given by the size rules: Leaf (W, H); Sequence (max(W, max child
\* width), H + sum(child height + Vs)); Concurrent (max(W, sum child widths
\* + Hs*(n-1)), H + Vs + max child height); Branch (then.width [+ Hs +
\* else.width], H + Vs + max(then.height, else.height or 0)).
C23_SizeFollowsRules ==
  (LaidOutTree /\ graph.ok /\ NoHydrate) =>
    /\ graph.value.width = SizeByRules(Root).width
    /\ graph.value.height = SizeByRules(Root).height

C23_Witness ==
  /\ pc = "laid"
  /\ Root # Undefined
  /\ graph.ok
  /\ NoHydrate
  /\ Root.tag = "PipeNode"
  /\ {"ParallelNode", "ForkNode"} \subseteq Tags(Root)
  /\ graph.value.width = 2 * NODE_WIDTH + H_SPACING
  /\ graph.value.height > 3 * NODE_HEIGHT

(***************************************************************************)
(* Properties of the connector paths                                       *)
(***************************************************************************)
VerticalGlyph == "U+2502"
HorizontalGlyph == "U+2500"
CornerGlyphs == {"U+2514", "U+2518", "U+2510", "U+250C"}
ArrowGlyph == "U+25BC"

\* the positioned node with the id
NodeOfId(id) == CHOOSE node \in Range(graph.value.nodes) : node.id = id

\* the column of a node's centre
CentreOf(node) == node.x + (node.width \div 2)

\* the shape of the path of one connection, from node `from` to node `to`
PathShape(points, from, to) ==
  LET fromX == CentreOf(from)
      fromY == from.y + from.height
      toX == CentreOf(to)
      toY == to.y
      down == toY - fromY
      corners == {i \in 1..Len(points) : points[i].char \in CornerGlyphs}
      arrows == {i \in 1..Len(points) : points[i].char = ArrowGlyph}
  IN \* starts right below the parent's box, in its centre column
     /\ down >= 1
     /\ points[1].x = fromX
     /\ points[1].y = fromY
     \* a vertical run down to one row above the child
     /\ \A i \in 1..down :
          /\ points[i].x = fromX
          /\ points[i].y = fromY + i - 1
          /\ points[i].char = VerticalGlyph
     \* a dogleg exactly if the centre columns differ: a corner, the
     \* horizontal run in the row above the child, a corner
     /\ corners # {} <=> fromX # toX
     /\ fromX # toX =>
          /\ Len(points) = down + Abs(toX - fromX) + 2
          /\ corners = {down + 1, Len(points) - 1}
          /\ points[down + 1].x = fromX
          /\ points[Len(points) - 1].x = toX
          /\ \A i \in (down + 1)..(Len(points) - 1) :
               /\ points[i].y = toY - 1
               /\ Abs(points[i].x - fromX) = i - down - 1
               /\ i \notin corners => points[i].char = HorizontalGlyph
     /\ fromX = toX => Len(points) = down + 1
     \* ends with the one arrow, in the child's centre column, in the row
     \* that touches the child's top line
     /\ arrows = {Len(points)}
     /\ points[Len(points)].x = toX
     /\ points[Len(points)].y = toY - 1

\* C24: every connector starts at its parent's bottom-centre, runs
\* vertically down to one row above the child, has a horizontal dogleg with
\* corner glyphs exactly if the two centre columns differ, and ends with a
\* single downward arrow in the child's centre column at the child's top
\* edge (the row that touches the child's top line).
C24_ConnectorShape ==
  (LaidOutTree /\ graph.ok) =>
    \A i \in 1..Len(graph.value.connections) :
      LET connection == graph.value.connections[i]
      IN PathShape(connection.points, NodeOfId(connection.fromId),
                   NodeOfId(connection.toId))

C24_Witness ==
  /\ pc = "laid"
  /\ Root # Undefined
  /\ graph.ok
  /\ \E i, j \in 1..Len(graph.value.connections) :
       LET straight == graph.value.connections[i]
           bent == graph.value.connections[j]
       IN /\ CentreOf(NodeOfId(straight.fromId)) = CentreOf(NodeOfId(straight.toId))
          /\ CentreOf(NodeOfId(bent.fromId)) < CentreOf(NodeOfId(bent.toId))
          /\ \E k \in 1..Len(bent.points) : bent.points[k].char \in CornerGlyphs
          /\ PathShape(bent.points, NodeOfId(bent.fromId), NodeOfId(bent.toId))

\* the gradient createConnection asks for: one step per row and per column
\* between the start of the path and the child's top centre
GradientOf(from, to) ==
  createGradient(from.color, to.color,
                 Abs(to.y - (from.y + from.height))
                   + Abs(CentreOf(to) - CentreOf(from)))

\* the colors of one connection's path
PathColors(points, from, to) ==
  \E gradient \in {GradientOf(from, to)} :
    /\ points[1].color = from.color
    /\ points[Len(points)].color = to.color
    /\ \A i \in 1..(Len(points) - 1) :
         /\ i <= Len(gradient)
         /\ points[i].color = gradient[i]

\* C25: every connector carries one gradient color per path cell, in path
\* order: the first cell has the parent's color, the last cell (the arrow)
\* has the child's color, and the gradient is long enough for every cell
\* before the arrow, so that none falls back to the child's color because
\* the gradient ran out.
C25_ConnectorColors ==
  (LaidOutTree /\ graph.ok) =>
    \A i \in 1..Len(graph.value.connections) :
      LET connection == graph.value.connections[i]
      IN PathColors(connection.points, NodeOfId(connection.fromId),
                    NodeOfId(connection.toId))

C25_Witness ==
  /\ pc = "laid"
  /\ Root # Undefined
  /\ graph.ok
  /\ \E i \in 1..Len(graph.value.connections) :
       LET connection == graph.value.connections[i]
           from == NodeOfId(connection.fromId)
           to == NodeOfId(connection.toId)
       IN /\ from.color # to.color
          /\ CentreOf(from) # CentreOf(to)
          /\ Len(connection.points) = Len(GradientOf(from, to)) + 1
          /\ connection.points[2].color \notin {from.color, to.color}

(***************************************************************************)
(* Properties of the drawing                                               *)
(***************************************************************************)
\* a graph with nodes has been drawn
Drawn == pc = "rendered" /\ rows.ok /\ graph.value.nodes # <<>>

\* the rows show the node's box lines cell by cell at its (x,y)
BoxShown(node) ==
  /\ Len(node.lines) = NODE_HEIGHT
  /\ \A ly \in 1..Len(node.lines) :
       /\ node.y + ly <= Len(rows.value)
       /\ \A lx \in 1..Len(node.lines[ly]) :
            /\ node.x + lx <= Len(rows.value[node.y + ly])
            /\ rows.value[node.y + ly][node.x + lx] = node.lines[ly][lx]

\* the connection points that lie inside the node's box rectangle
PointsInside(node) ==
  { <<i, k>> \in (1..Len(graph.value.connections)) \X (1..(graph.value.height + 1)) :
      /\ k <= Len(graph.value.connections[i].points)
      /\ LET point == graph.value.connections[i].points[k]
         IN /\ node.x <= point.x
            /\ point.x < node.x + node.width
            /\ node.y <= point.y
            /\ point.y < node.y + node.height }

\* C26: in the rows drawn for any laid-out tree, the five box lines of
\* every positioned node appear unmodified at its (x,y): the connectors are
\* drawn first and the boxes after them, so no cell of a box shows a
\* connector glyph or another node's text.
C26_BoxesDrawnOverConnectors ==
  Drawn => \A i \in 1..Len(graph.value.nodes) : BoxShown(graph.value.nodes[i])

C26_Witness ==
  /\ Drawn
  /\ \E i \in 1..Len(graph.value.nodes) :
       /\ PointsInside(graph.value.nodes[i]) # {}
       /\ BoxShown(graph.value.nodes[i])

\* all rows have one length
RowsEquallyLong ==
  \A i, j \in 1..Len(rows.value) : Len(rows.value[i]) = Len(rows.value[j])

\* C27: the rows drawn for a graph with nodes all have the same length, no
\* row is longer than the graph's width plus the margin of 2 the renderer
\* adds, and there are no more rows than the graph's height plus that
\* margin.
C27_RowsWithinMargin ==
  Drawn =>
    /\ RowsEquallyLong
    /\ \A i \in 1..Len(rows.value) :
         Len(rows.value[i]) <= graph.value.width + BufferMargin
    /\ Len(rows.value) <= graph.value.height + BufferMargin

(***************************************************************************)
(* Properties of the reducer of the terminal interface                     *)
(***************************************************************************)
\* the number of entries of the list a mode shows
CurrentLength(state) ==
  CASE state.mode = "main" -> 5
    [] state.mode = "grimoire" -> Len(state.localSkills)
    [] state.mode = "workspace" -> Len(state.workspace)
    [] state.mode = "search" -> Len(state.searchResults)
    [] OTHER -> 0

\* the selection is on an entry of the list, or at 0 where the list is empty
InList(state) ==
  state.selectedIndex \in 0..Max2(0, CurrentLength(state) - 1)

Navigated(towards) ==
  reducer(tui, [type |-> "NAVIGATE", direction |-> towards])

\* C28: from a state whose selectedIndex is in 0..getMaxIndex(state),
\* NAVIGATE down gives min(selectedIndex + 1, getMaxIndex(state)) and up
\* gives max(selectedIndex - 1, 0), no other field changes, and the
\* selection stays inside the list the mode shows.
C28_NavigateStaysInList ==
  (Created /\ tui.selectedIndex \in 0..getMaxIndex(tui)) =>
    /\ Navigated("down") =
         [tui EXCEPT !.selectedIndex = Min2(tui.selectedIndex + 1, getMaxIndex(tui))]
    /\ Navigated("up") =
         [tui EXCEPT !.selectedIndex = Max2(tui.selectedIndex - 1, 0)]
    /\ InList(Navigated("down"))
    /\ InList(Navigated("up"))

\* the selection has been moved down to the last of three installed skills,
\* where another step down leaves it
C28_Witness ==
  /\ Created
  /\ tui.mode = "workspace"
  /\ Len(tui.workspace) = 3
  /\ tui.selectedIndex = 2
  /\ Navigated("down") = tui
  /\ Navigated("up").selectedIndex = 1

DistinctIds(skills) ==
  \A i, j \in 1..Len(skills) : skills[i].id = skills[j].id => i = j

AlreadyInstalled == <<" ", "a", "l", "r", "e", "a", "d", "y", " ", "i", "n", "s", "t", "a", "l", "l", "e", "d">>

\* the selected skill of an installing mode is in the workspace
SelectedIsInstalled ==
  /\ tui.mode \in {"grimoire", "search"}
  /\ ~Falsy(getSelectedSkill(tui))
  /\ \E i \in 1..Len(tui.workspace) :
       tui.workspace[i].id = getSelectedSkill(tui).id

\* C29: after any sequence of actions from createState with distinct skill
\* ids the workspace holds no two skills with the same id, and installing a
\* skill that is already in the workspace leaves the workspace as it was
\* and only sets the status message "<name> already installed".
C29_WorkspaceIdsDistinct ==
  Created =>
    /\ DistinctIds(tui.workspace)
    /\ SelectedIsInstalled =>
         \A type \in {"INSTALL_SKILL", "SUMMON_SKILL", "SELECT"} :
           reducer(tui, [type |-> type]) =
             [tui EXCEPT !.statusMessage =
                           getSelectedSkill(tui).name \o AlreadyInstalled]

\* an installed skill has been installed again, and refused
C29_Witness ==
  /\ Created
  /\ SelectedIsInstalled
  /\ tui.statusMessage = getSelectedSkill(tui).name \o AlreadyInstalled
  /\ Len(tui.workspace) >= 2

Removed == reducer(tui, [type |-> "REMOVE_SKILL"])

RemovedMessage == <<"U+2717">> \o <<" ", "R", "e", "m", "o", "v", "e", "d", " ">>

\* C30: REMOVE_SKILL in workspace mode with a non-empty workspace removes
\* exactly the skill at selectedIndex, keeps the other skills in their
\* order and leaves selectedIndex an index of the new workspace, 0 when it
\* is empty; with an empty workspace or in another mode the workspace is
\* unchanged.
C30_RemoveSelectedSkill ==
  Created =>
    /\ (tui.mode = "workspace" /\ Len(tui.workspace) > 0) =>
         /\ Len(Removed.workspace) = Len(tui.workspace) - 1
         /\ \A i \in 1..Len(Removed.workspace) :
              Removed.workspace[i] =
                tui.workspace[IF i <= tui.selectedIndex THEN i ELSE i + 1]
         /\ IF Removed.workspace = <<>>
              THEN Removed.selectedIndex = 0
              ELSE Removed.selectedIndex \in 0..(Len(Removed.workspace) - 1)
    /\ (tui.mode # "workspace" \/ Len(tui.workspace) = 0) =>
         Removed.workspace = tui.workspace
    /\ reducer(tui, [type |-> "BANISH_SKILL"]) = Removed

\* the last of three installed skills has been removed, and the selection
\* is on the last of the two that are left
C30_Witness ==
  /\ Created
  /\ tui.mode = "workspace"
  /\ tui.workspace = SubSeq(MockSkills, 1, 2)
  /\ tui.selectedIndex = 1
  /\ tui.statusMessage = RemovedMessage \o MockSkills[3].name

(***************************************************************************)
(* Properties of the graph as a whole                                      *)
(***************************************************************************)
\* the preorder index of the parent of the tree node at preorder index q
ParentIndexOf(q) ==
  CHOOSE p \in 1..(q - 1) :
    \E k \in 1..Len(Children(Subtrees(Root)[p])) :
      ChildIndex(Children(Subtrees(Root)[p]), p, k) = q

\* the connections that lead to the positioned node
ConnectorsTo(node) ==
  {i \in 1..Len(graph.value.connections) : graph.value.connections[i].toId = node.id}

\* C38: in every graph the layout returns the connectors are the tree's
\* parent-child edges: the node ids are pairwise distinct, there is one
\* connector less than there are positioned nodes, every positioned node but
\* the root is the toId of exactly one connector, and that connector's
\* fromId is the id of the node positioned for its parent in the tree.
C38_ConnectorsAreTreeEdges ==
  (LaidOutTree /\ graph.ok) =>
    /\ NodesInPreorder
    /\ \A i, j \in 1..Len(graph.value.nodes) :
         graph.value.nodes[i].id = graph.value.nodes[j].id => i = j
    /\ Len(graph.value.connections) = Len(graph.value.nodes) - 1
    /\ ConnectorsTo(graph.value.nodes[1]) = {}
    /\ \A q \in 2..Len(graph.value.nodes) :
         /\ Cardinality(ConnectorsTo(graph.value.nodes[q])) = 1
         /\ \A i \in ConnectorsTo(graph.value.nodes[q]) :
              graph.value.connections[i].fromId =
                graph.value.nodes[ParentIndexOf(q)].id

\* a tree three levels deep with a pipe of two below the root: the second
\* child of the pipe hangs on the pipe, not on the root and not on its
\* sibling
C38_Witness ==
  /\ pc = "laid"
  /\ Root # Undefined
  /\ graph.ok
  /\ \E p \in PipeIndices :
       /\ p > 1
       /\ Len(Subtrees(Root)[p].nodes) = 2
       /\ \E i \in ConnectorsTo(ChildNode(p, 2)) :
            graph.value.connections[i].fromId = graph.value.nodes[p].id

\* the cells of a positioned node's box
BoxCells(node) ==
  (node.x..(node.x + node.width - 1)) \X (node.y..(node.y + node.height - 1))

\* C39: in every graph the layout returns no two positioned boxes share a
\* cell, and every box lies inside the bounding rectangle: 0 <= x,
\* x + width <= graph.width, 0 <= y, y + height <= graph.height.
C39_BoxesApartAndInside ==
  (LaidOutTree /\ graph.ok) =>
    /\ \A i, j \in 1..Len(graph.value.nodes) :
         i # j => BoxCells(graph.value.nodes[i]) \cap BoxCells(graph.value.nodes[j]) = {}
    /\ \A i \in 1..Len(graph.value.nodes) :
         LET node == graph.value.nodes[i] IN
           /\ 0 <= node.x
           /\ node.x + node.width <= graph.value.width
           /\ 0 <= node.y
           /\ node.y + node.height <= graph.value.height

\* a fork with both branches: two boxes side by side in one row below the
\* fork's box, the right one reaching the right edge of the rectangle
C39_Witness ==
  /\ pc = "laid"
  /\ Root # Undefined
  /\ graph.ok
  /\ Root.tag = "ForkNode"
  /\ Root.condition.else # Undefined
  /\ \E i, j \in 2..Len(graph.value.nodes) :
       /\ graph.value.nodes[i].y = graph.value.nodes[j].y
       /\ graph.value.nodes[i].x < graph.value.nodes[j].x
       /\ graph.value.nodes[j].x + graph.value.nodes[j].width = graph.value.width

(***************************************************************************)
(* Properties of the composition of the terminal interface                 *)
(***************************************************************************)
Added(compositionType) ==
  reducer(tui, [type |-> "ADD_TO_COMPOSITION", compositionType |-> compositionType])

RECURSIVE SkillsOf(_)
\* the skills of a composition, in the order of its children
SkillsOf(node) ==
  IF Falsy(node) THEN <<>>
  ELSE IF "children" \in DOMAIN node
    THEN Flatten([i \in 1..Len(node.children) |-> SkillsOf(node.children[i])])
    ELSE <<node.skill>>

\* a skill is selected in a mode that adds to the composition
CanAdd ==
  /\ Created
  /\ tui.mode \in {"grimoire", "workspace"}
  /\ ~Falsy(getSelectedSkill(tui))

\* C31: ADD_TO_COMPOSITION with a selected skill in grimoire or workspace
\* mode makes a composition of the requested type with that one skill when
\* there is none, appends the skill as the last child when the root has the
\* requested type, and otherwise makes a new root of the requested type
\* with the old composition as first and the skill as second child; the
\* mode becomes compose, and the skills added before stay in their order.
C31_AddToComposition ==
  CanAdd =>
    \A compositionType \in CompositionTypes :
      LET after == Added(compositionType)
          leaf == [type |-> "skill", skill |-> getSelectedSkill(tui)]
      IN /\ after.mode = "compose"
         /\ after.composition =
              IF tui.composition = NullValue
                THEN [type |-> compositionType, children |-> <<leaf>>]
                ELSE IF tui.composition.type = compositionType
                  THEN [type |-> compositionType,
                        children |-> Append(tui.composition.children, leaf)]
                  ELSE [type |-> compositionType,
                        children |-> <<tui.composition, leaf>>]
         /\ SkillsOf(after.composition) =
              SkillsOf(tui.composition) \o <<getSelectedSkill(tui)>>
         /\ after.workspace = tui.workspace
         /\ after.localSkills = tui.localSkills

\* a skill has been added to a pipe of one skill as a parallel: the pipe is
\* the first child of the new root, and a third skill can be added
C31_Witness ==
  /\ Created
  /\ tui.mode = "compose"
  /\ tui.composition # NullValue
  /\ tui.composition.type = "parallel"
  /\ Len(tui.composition.children) = 2
  /\ tui.composition.children[1].type = "pipe"
  /\ tui.composition.children[2].type = "skill"
  /\ tui.composition.children[2].skill # tui.composition.children[1].children[1].skill

\* C35: after any sequence of reducer actions from createState,
\* 0 <= selectedIndex <= getMaxIndex(state), also right after an action
\* that changes the mode.
C35_SelectedIndexInRange ==
  Created => tui.selectedIndex \in 0..getMaxIndex(tui)

(***************************************************************************)
(* Properties of the keys                                                  *)
(***************************************************************************)
WentBack == reducer(tui, [type |-> "BACK"])

\* C32: in every mode other than main the Escape key maps to BACK, and the
\* reducer then yields mode main with selectedIndex 0 and the workspace and
\* the composition as they were; in main mode Escape maps to no action and
\* BACK leaves the state as it is.
C32_EscapeGoesBack ==
  Created =>
    /\ tui.mode # "main" =>
         /\ keyToAction(Escape, tui) = [type |-> "BACK"]
         /\ WentBack.mode = "main"
         /\ WentBack.selectedIndex = 0
         /\ WentBack.workspace = tui.workspace
         /\ WentBack.composition = tui.composition
    /\ tui.mode = "main" =>
         /\ keyToAction(Escape, tui) = NullValue
         /\ WentBack = tui

\* BACK has led to main from a state with a composition and installed
\* skills, and both are still there
C32_Witness ==
  /\ Created
  /\ tui.mode = "main"
  /\ tui.selectedIndex = 0
  /\ tui.statusMessage = <<"B", "a", "c", "k", " ", "t", "o", " ", "m", "a", "i", "n">>
  /\ tui.composition # NullValue
  /\ tui.workspace # <<>>
  /\ keyToAction(Escape, tui) = NullValue

\* the keys that are taken before the mode is looked at
ExitKeys == {CtrlC, "q", Escape}

\* C33 (as keyToAction does it): in help mode every key but Ctrl+C, q and
\* Escape maps to the action that sets the mode to main; Escape maps to
\* BACK, which leads to main as well, q maps to QUIT and Ctrl+C to no
\* action.
C33_HelpKeys ==
  (Created /\ tui.mode = "help") =>
    /\ \A key \in Keys \ ExitKeys :
         keyToAction(key, tui) = [type |-> "SET_MODE", mode |-> "main"]
    /\ keyToAction(Escape, tui) = [type |-> "BACK"]
    /\ WentBack.mode = "main"
    /\ reducer(tui, [type |-> "SET_MODE", mode |-> "main"]).mode = "main"
    /\ keyToAction("q", tui) = [type |-> "QUIT"]
    /\ reducer(tui, [type |-> "QUIT"]) = tui
    /\ keyToAction(CtrlC, tui) = NullValue

\* the help is shown over a library with an installed skill; x closes it
C33_Witness ==
  /\ Created
  /\ tui.mode = "help"
  /\ tui.workspace # <<>>
  /\ keyToAction("x", tui) = [type |-> "SET_MODE", mode |-> "main"]

\* C33 (as stated): in help mode keyToAction returns the action that sets
\* the mode to main for every key.
C33_AnyKeyExitsHelp ==
  (Created /\ tui.mode = "help") =>
    \A key \in Keys :
      keyToAction(key, tui) = [type |-> "SET_MODE", mode |-> "main"]

(***************************************************************************)
(* Properties of watch mode                                                *)
(***************************************************************************)
WatchLog == IF watch = NotRun THEN <<>> ELSE watch.log

IsChange(i) == WatchLog[i].event = "change"

IsRebuild(i) == WatchLog[i].event = "rebuild"

\* a change that opens a burst: no change came less than the debounce
\* interval before it
OpensBurst(i) ==
  /\ IsChange(i)
  /\ \A h \in 1..(i - 1) :
       IsChange(h) => WatchLog[i].at - WatchLog[h].at >= DebounceTicks

Bursts == {i \in 1..Len(WatchLog) : OpensBurst(i)}

Rebuilds == {k \in 1..Len(WatchLog) : IsRebuild(k)}

\* C37: in watch mode at most one rebuild runs at any time, whatever the
\* order of change events, expiries of the debounce timer and ends of
\* builds: the flag building is set exactly while a rebuild runs, no
\* rebuild starts between two changes that are closer together than the
\* debounce interval, and there are no more rebuilds than bursts of changes.
C37_OneRebuildAtATime ==
  watch # NotRun =>
    /\ watch.running \in {0, 1}
    /\ watch.building <=> watch.running = 1
    /\ watch.building => ~TimerPending(watch)
    /\ \A i, j \in 1..Len(WatchLog) :
         (/\ i < j
          /\ IsChange(i)
          /\ IsChange(j)
          /\ WatchLog[j].at - WatchLog[i].at < DebounceTicks) =>
           \A k \in (i + 1)..(j - 1) : ~IsRebuild(k)
    /\ Cardinality(Rebuilds) <= Cardinality(Bursts)

\* two changes one tick apart have started one rebuild, which runs, and a
\* third change has come during it
C37_Witness ==
  /\ watch # NotRun
  /\ watch.running = 1
  /\ Len(WatchLog) = 4
  /\ IsChange(1) /\ IsChange(2) /\ IsRebuild(3) /\ IsChange(4)
  /\ WatchLog[2].at - WatchLog[1].at = 1
  /\ WatchLog[3].at = WatchLog[2].at + DebounceTicks
  /\ WatchLog[4].building

\* a change that no start of a rebuild follows
Unserved ==
  \E i \in 1..Len(WatchLog) :
    /\ IsChange(i)
    /\ \A k \in (i + 1)..Len(WatchLog) : ~IsRebuild(k)

WatcherClosed == watch # NotRun /\ watch.closed

\* C34: every change event on the watched file is eventually followed by
\* the start of a rebuild, as long as the watcher is not closed, also when
\* the change arrives while an earlier rebuild runs.
C34_ChangeLeadsToRebuild ==
  Unserved ~> (~Unserved \/ WatcherClosed)

\* a change that the callback did not drop and that no start of a rebuild
\* follows
UnservedHeard ==
  \E i \in 1..Len(WatchLog) :
    /\ IsChange(i)
    /\ ~WatchLog[i].building
    /\ \A k \in (i + 1)..Len(WatchLog) : ~IsRebuild(k)

\* a change that arrives while no rebuild runs is followed by one
HeardChangeLeadsToRebuild ==
  UnservedHeard ~> (~UnservedHeard \/ WatcherClosed)

(***************************************************************************)
(* Properties of the app store                                             *)
(***************************************************************************)
\* an index of the list, or 0 where the list is empty
ValidSelection(index, list) == index \in 0..Max2(0, Len(list) - 1)

\* C36: after any sequence of hotkeys in any view, selectedSkillIndex and
\* selectedResultIndex are not negative and not beyond the last index of
\* their list, also when the list is empty.
C36_SelectionsStayValid ==
  app # NotRun =>
    /\ ValidSelection(app.selectedSkillIndex, app.localSkills)
    /\ ValidSelection(app.selectedResultIndex, app.scryResults)

=============================================================================
